---- MODULE Spec2Model ----
(***************************************************************************)
(* Class family resolver of bump-pydantic                                  *)
(* (bump_pydantic/codemods/class_def_visitor.py).                          *)
(*                                                                         *)
(* The state is the part of CodemodContext.scratch that ClassDefVisitor    *)
(* owns: the set of known models, the set of known non-models and the      *)
(* defaultdict of PendingClass entries.  One action per operation:         *)
(* ClassDefVisitor.__init__ (a visitor is constructed for a file against   *)
(* the shared scratch) and ClassDefVisitor.visit_ClassDef (one class       *)
(* declaration is observed).                                               *)
(***************************************************************************)
EXTENDS Naturals, Sequences, FiniteSets, TLC

\* Largest number of fully-qualified names one base expression resolves to.
MaxNames == 2

\* Fully-qualified names of the classes declared in the scanned files
\* (the three modules of test_with_cross_module).
Classes == {"some.test.module.Foo", "some.test.other_module.Bar", "some.test.third_module.Baz"}

\* A class that no scanned file declares.
Unscanned == "elsewhere.Unscanned"

\* The default of scratch.setdefault(BASE_MODEL_CONTEXT_KEY, ...).
SeedModels == {"pydantic.BaseModel", "pydantic.main.BaseModel"}

\* Names a base expression of a scanned class can resolve to.
BaseNames == Classes \cup {"pydantic.BaseModel", Unscanned}

BASE_MODEL_CONTEXT_KEY == "base_model_cls"
NO_BASE_MODEL_CONTEXT_KEY == "no_base_model_cls"
PENDING_CLS_CONTEXT_KEY == "unknown_cls"
ContextKeys == {BASE_MODEL_CONTEXT_KEY, NO_BASE_MODEL_CONTEXT_KEY, PENDING_CLS_CONTEXT_KEY}

VARIABLES
    scratch_keys,  \* keys present in context.scratch
    models,        \* scratch["base_model_cls"]    (self.models)
    non_models,    \* scratch["no_base_model_cls"] (self.non_models)
    pending,       \* scratch["unknown_cls"]       (self.pending), name -> PendingClass
    declared,      \* the declarations observed so far, name -> what was declared
    last_fqn,      \* fqn.name of the current visitor's latest visit_ClassDef, or None
    disabled,        \* main: the rules given with --disable
    codemods,        \* main: the list gather_codemods returned, << >> before the call
    context_scratch, \* run_codemods: context.scratch of the current file's CodemodContext
    code,            \* run_codemods: the text read from the file, << >> before the read
    input_tree,      \* run_codemods: the tree the next pass receives, << >> before the parse
    received,        \* what each pass applied so far was constructed and called with
    pc,                  \* main: where the run is
    diff,                \* main: the --diff option
    process_single_file, \* main: the file of the single file mode, or None
    disk,                \* the text of each file on disk
    filenames,           \* run_codemods_batched: the files of the batch still to run
    errors,              \* run_codemods_batched: errors
    diffs,               \* run_codemods_batched: diffs
    count_errors,        \* main: count_errors
    log_fp,              \* main: what was written to the log file
    difflines,           \* main: difflines
    exit_code,           \* the exit status of the process once pc is "exited"
    returned,            \* what run_codemods read and returned, per file it ran on
    position,               \* ReplaceConfigCodemod: where the traversal of the module is
    node,                   \* the top-level class being traversed
    visited,                \* number of top-level classes entered so far
    inside_config_class,    \* self.inside_config_class
    is_base_settings,       \* self.is_base_settings
    invalid_config_class,   \* self.invalid_config_class
    inherited_config_class, \* self.inherited_config_class
    config_args,            \* self.config_args, as the keywords of the arguments
    class_stack,            \* self.class_stack
    last_class,             \* self.last_class: << >> for None, else <<ClassInfo>>
    updated_config,         \* the comment leave_config_class put before the nested Config
    updated_fields,         \* whether the model_config field got its comment
    emitted,                \* what the traversal returned for the class left last
    at,                           \* ValidatorCodemod: where the traversal of the module is
    fn,                           \* the function being traversed
    dec,                          \* number of its decorators entered so far
    functions_seen,               \* number of functions entered so far
    _args,                        \* self._args
    _has_comment,                 \* self._has_comment
    _should_add_comment,          \* self._should_add_comment
    _should_replace_values_param, \* self._should_replace_values_param
    _should_be_instance_method,   \* self._should_be_instance_method
    updated_decorators,           \* what the traversal returned for the decorators left
    updated_function,             \* what the traversal returned for the function left last
    command,       \* the pass that traverses the class body: the name of its class
    run_no,        \* 1 for the run on the input, 2 for the run on the output of run 1
    statements,    \* the statements of the class body this run traverses
    cursor,        \* number of statements entered so far
    stage,         \* where the traversal is within the statement
    comment_flag,  \* should_add_comment / needs_model_config_comment / comment_to_add
    output,        \* what the traversal returned for the statements left so far
    first_output,  \* what run 1 returned, << >> during run 1
    files,         \* scan_for_classes: the files argument
    contents,      \* what each file holds: whether it parses, and its class's base list
    queue,         \* scan_for_classes: queue
    visited_files, \* scan_for_classes: visited
    scanned,       \* the files taken from the queue so far, in order
    scan_log,      \* scan_for_classes: errors
    pc_scan,       \* scan_for_classes: where the loop is
    call_stack,    \* the calls of _setIsModel / _setIsNotModel in progress
    pops           \* the names self.pending.pop(fqn) removed in this propagation

resolver_vars == <<scratch_keys, models, non_models, pending, declared, last_fqn>>
pipeline_vars == <<disabled, codemods, context_scratch, code, input_tree, received>>
driver_vars ==
    <<pc, diff, process_single_file, disk, filenames, errors, diffs, count_errors, log_fp,
      difflines, exit_code, returned>>
config_vars ==
    <<position, node, visited, inside_config_class, is_base_settings, invalid_config_class,
      inherited_config_class, config_args, class_stack, last_class, updated_config,
      updated_fields, emitted>>
validator_vars ==
    <<at, fn, dec, functions_seen, _args, _has_comment, _should_add_comment,
      _should_replace_values_param, _should_be_instance_method, updated_decorators,
      updated_function>>
comment_vars ==
    <<command, run_no, statements, cursor, stage, comment_flag, output, first_output>>
scan_vars ==
    <<files, contents, queue, visited_files, scanned, scan_log, pc_scan, call_stack, pops>>
vars == <<resolver_vars, pipeline_vars, driver_vars, config_vars, validator_vars, comment_vars, scan_vars>>

\* No class visited yet by the current visitor; no file read yet.
None == "None"

\* The rewrite phase has not started.
PipelineIdle ==
    /\ disabled = {}
    /\ codemods = << >>
    /\ context_scratch = << >>
    /\ code = << >>
    /\ input_tree = << >>
    /\ received = << >>

\* main has not reached the rewrite phase; no file is on disk.
DriverIdle ==
    /\ pc = "scan"
    /\ diff = FALSE
    /\ process_single_file = None
    /\ disk = << >>
    /\ filenames = << >>
    /\ errors = << >>
    /\ diffs = << >>
    /\ count_errors = 0
    /\ log_fp = << >>
    /\ difflines = << >>
    /\ exit_code = 0
    /\ returned = << >>

\* No class of a module, as the value of node between classes.
NoNode ==
    [name |-> "", bases |-> "none", fields |-> "none", config |-> "none", key |-> "",
     commented |-> FALSE]

\* Nothing returned yet for a class.
NothingEmitted ==
    [node |-> NoNode, comment |-> "none", field_comment |-> FALSE, converted |-> FALSE,
     args |-> << >>, call |-> ""]

\* ReplaceConfigCodemod.__init__: the fields of a new instance, before the
\* traversal of a module.
ConfigIdle ==
    /\ position = "module"
    /\ node = NoNode
    /\ visited = 0
    /\ inside_config_class = FALSE
    /\ is_base_settings = FALSE
    /\ invalid_config_class = FALSE
    /\ inherited_config_class = FALSE
    /\ config_args = << >>
    /\ class_stack = << >>
    /\ last_class = << >>
    /\ updated_config = "none"
    /\ updated_fields = FALSE
    /\ emitted = NothingEmitted

----------------------------------------------------------------------------
(* Inputs: a class declaration's base list.  node.bases is a sequence of    *)
(* base expressions; FullyQualifiedNameProvider resolves each to a set of   *)
(* names, possibly empty, which the code iterates in some order: a base     *)
(* expression is modelled as the sequence of its names in iteration order.  *)

\* A base expression resolving to no name or to exactly one.
PlainBases == {<< >>} \cup {<<n>> : n \in BaseNames}

\* The iteration orders of the sets of two or more names, at most k.
AmbiguousBases(k) ==
    UNION {{q \in [1..len -> BaseNames] : \A i, j \in 1..len : i # j => q[i] # q[j]} :
           len \in 2..k}

\* The declarations the model observes: no base expression, one base
\* expression resolving to up to MaxNames names, or two plain ones.
BaseLists ==
    {<< >>} \cup {<<a>> : a \in PlainBases \cup AmbiguousBases(MaxNames)}
            \cup {<<a, b>> : a, b \in PlainBases}

\* All names a base list resolves to.
ResolvedNames(bases) == UNION {{bases[i][j] : j \in DOMAIN bases[i]} : i \in DOMAIN bases}

\* What a declaration says, independent of the order of its bases.
Declaration(bases) ==
    [no_bases   |-> bases = << >>,
     unresolved |-> \E i \in DOMAIN bases : bases[i] = << >>,
     names      |-> ResolvedNames(bases)]

----------------------------------------------------------------------------
(* The registry as a value, for the propagation procedures.                 *)

Registry == [models |-> models, non_models |-> non_models, pending |-> pending]

\* dataclass PendingClass with its default_factory fields.
PendingClass == [pending_bases |-> {}, subclasses |-> {}]

\* dict.pop(key)
Pop(d, key) == [k \in DOMAIN d \ {key} |-> d[k]]

\* defaultdict.__getitem__: a missing key yields a fresh PendingClass.
Get(d, key) == IF key \in DOMAIN d THEN d[key] ELSE PendingClass

\* Store value under key (the entry is created when missing).
Put(d, key, value) == [k \in DOMAIN d \cup {key} |-> IF k = key THEN value ELSE d[k]]

RECURSIVE _setIsModel(_, _)
RECURSIVE ModelSubclasses(_, _)
\* _setIsModel adding the name to models without popping its pending entry
\* or promoting its subclasses.
_setIsModel_AddOnly(fqn, reg) == {[reg EXCEPT !.models = @ \cup {fqn}]}

\* ClassDefVisitor._setIsModel: the set of registries the call can end in
\* (one per iteration order of the subclasses set).
_setIsModel(fqn, reg) ==
    LET added == [reg EXCEPT !.models = @ \cup {fqn}]
    IN  IF fqn \in DOMAIN added.pending
        THEN LET pending_info == added.pending[fqn]
                 popped == [added EXCEPT !.pending = Pop(@, fqn)]
             IN  ModelSubclasses(pending_info.subclasses, popped)
        ELSE {added}

\* The loop of _setIsModel adding the direct subclasses to models without
\* the recursive call.
ModelSubclasses_Direct(todo, reg) == {[reg EXCEPT !.models = @ \cup todo]}

\* for subclass_fqn in pending_info.subclasses: self._setIsModel(subclass_fqn)
ModelSubclasses(todo, reg) ==
    IF todo = {} THEN {reg}
    ELSE UNION {UNION {ModelSubclasses(todo \ {subclass_fqn}, r) :
                       r \in _setIsModel(subclass_fqn, reg)} :
                subclass_fqn \in todo}

RECURSIVE _setIsNotModel(_, _)
RECURSIVE NotModelSubclasses(_, _, _)
\* ClassDefVisitor._setIsNotModel: the set of registries the call can end in.
_setIsNotModel(fqn, reg) ==
    LET added == [reg EXCEPT !.non_models = @ \cup {fqn}]
    IN  IF fqn \in DOMAIN added.pending
        THEN LET pending_info == added.pending[fqn]
                 popped == [added EXCEPT !.pending = Pop(@, fqn)]
             IN  NotModelSubclasses(fqn, pending_info.subclasses, popped)
        ELSE {added}

\* The loop body of _setIsNotModel without the test that pending_bases has
\* become empty: a subclass is a non-member as soon as one base is.
NotModelSubclass_Premature(fqn, subclass_fqn, reg) ==
    IF subclass_fqn \notin DOMAIN reg.pending
    THEN {reg}
    ELSE _setIsNotModel(subclass_fqn,
                        [reg EXCEPT !.pending[subclass_fqn].pending_bases = @ \ {fqn}])

\* The loop body of _setIsNotModel without the recursive call.
NotModelSubclass_NoRecursion(fqn, subclass_fqn, reg) ==
    IF subclass_fqn \notin DOMAIN reg.pending
    THEN {reg}
    ELSE {[reg EXCEPT !.pending[subclass_fqn].pending_bases = @ \ {fqn}]}

\* The loop body of _setIsNotModel for one subclass_fqn.
NotModelSubclass(fqn, subclass_fqn, reg) ==
    IF subclass_fqn \notin DOMAIN reg.pending
    THEN {reg}
    ELSE LET discarded ==
                 [reg EXCEPT !.pending[subclass_fqn].pending_bases = @ \ {fqn}]
         IN  IF discarded.pending[subclass_fqn].pending_bases = {}
             THEN _setIsNotModel(subclass_fqn, discarded)
             ELSE {discarded}

\* for subclass_fqn in pending_info.subclasses: ...
NotModelSubclasses(fqn, todo, reg) ==
    IF todo = {} THEN {reg}
    ELSE UNION {UNION {NotModelSubclasses(fqn, todo \ {subclass_fqn}, r) :
                       r \in NotModelSubclass(fqn, subclass_fqn, reg)} :
                subclass_fqn \in todo}

\* Locals of visit_ClassDef before its loops.
NoBasesSeen == [has_model_base |-> FALSE, unknown_bases |-> << >>]

RECURSIVE ScanNames_LastWins(_, _, _)
\* The inner loop assigning has_model_base for every name (no break): the
\* last name examined decides.
ScanNames_LastWins(base_fqn_set, locals, reg) ==
    IF base_fqn_set = << >> THEN locals
    ELSE LET base_fqn == Head(base_fqn_set)
             seen == [locals EXCEPT !.has_model_base = base_fqn \in reg.models]
         IN  IF base_fqn \notin reg.models /\ base_fqn \notin reg.non_models
             THEN ScanNames_LastWins(Tail(base_fqn_set),
                                     [seen EXCEPT !.unknown_bases = Append(@, base_fqn)], reg)
             ELSE ScanNames_LastWins(Tail(base_fqn_set), seen, reg)

RECURSIVE ScanNames(_, _, _)
\* for base_fqn in base_fqn_set: the inner loop of visit_ClassDef, with its
\* break (which leaves this loop only).
ScanNames(base_fqn_set, locals, reg) ==
    IF base_fqn_set = << >> THEN locals
    ELSE LET base_fqn == Head(base_fqn_set)
         IN  IF base_fqn \in reg.models
             THEN [locals EXCEPT !.has_model_base = TRUE]
             ELSE IF base_fqn \notin reg.non_models
             THEN ScanNames(Tail(base_fqn_set),
                            [locals EXCEPT !.unknown_bases = Append(@, base_fqn)], reg)
             ELSE ScanNames(Tail(base_fqn_set), locals, reg)

RECURSIVE ScanBases(_, _, _)
\* for arg in node.bases: the outer loop of visit_ClassDef.
ScanBases(bases, locals, reg) ==
    IF bases = << >> THEN locals
    ELSE ScanBases(Tail(bases), ScanNames(Head(bases), locals, reg), reg)

\* The final loop of visit_ClassDef left out: no subclass is registered.
AddSubclass_Skipped(fqn, unknown_bases, pend) == pend

RECURSIVE AddSubclass(_, _, _)
\* for base_fqn in unknown_bases: self.pending[base_fqn.name].subclasses.add(fqn.name)
AddSubclass(fqn, unknown_bases, pend) ==
    IF unknown_bases = << >> THEN pend
    ELSE LET base_fqn == Head(unknown_bases)
         IN  AddSubclass(fqn, Tail(unknown_bases),
                         Put(pend, base_fqn,
                             [Get(pend, base_fqn) EXCEPT !.subclasses = @ \cup {fqn}]))

\* The final else branch of visit_ClassDef: record the pending class and
\* register it as a subclass of each unknown base.
AddPending(fqn, unknown_bases, reg) ==
    LET names == {unknown_bases[i] : i \in DOMAIN unknown_bases}
        own == Put(reg.pending, fqn, [Get(reg.pending, fqn) EXCEPT !.pending_bases = names])
    IN  [reg EXCEPT !.pending = AddSubclass(fqn, unknown_bases, own)]

\* ClassDefVisitor.visit_ClassDef for a class with a fully-qualified name:
\* the set of registries the call can end in.
visit_ClassDef(fqn, bases, reg) ==
    IF bases = << >>
    THEN _setIsNotModel(fqn, reg)
    ELSE LET locals == ScanBases(bases, NoBasesSeen, reg)
         IN  IF locals.has_model_base
             THEN _setIsModel(fqn, reg)
             ELSE IF locals.unknown_bases = << >>
             THEN _setIsNotModel(fqn, reg)
             ELSE {AddPending(fqn, locals.unknown_bases, reg)}

\* No function of a module, as the value of fn between functions.
NoFunction == [decorators |-> << >>, params |-> "", marked |-> FALSE]

\* Nothing returned yet for a function.
NoFunctionEmitted ==
    [fn |-> NoFunction, decorators |-> << >>, params_replaced |-> FALSE,
     classmethod_added |-> FALSE]

\* ValidatorCodemod.__init__: the fields of a new instance, before the
\* traversal of a module.
ValidatorIdle ==
    /\ at = "module"
    /\ fn = NoFunction
    /\ dec = 0
    /\ functions_seen = 0
    /\ _args = << >>
    /\ _has_comment = FALSE
    /\ _should_add_comment = FALSE
    /\ _should_replace_values_param = FALSE
    /\ _should_be_instance_method = FALSE
    /\ updated_decorators = << >>
    /\ updated_function = NoFunctionEmitted

\* No pass with a deferred comment is running.
CommentsIdle ==
    /\ command = None
    /\ run_no = 1
    /\ statements = << >>
    /\ cursor = 0
    /\ stage = "between"
    /\ comment_flag = FALSE
    /\ output = << >>
    /\ first_output = << >>

\* scan_for_classes is not running.
ScanIdle ==
    /\ files = << >>
    /\ contents = << >>
    /\ queue = << >>
    /\ visited_files = {}
    /\ scanned = << >>
    /\ scan_log = << >>
    /\ pc_scan = "idle"
    /\ call_stack = << >>
    /\ pops = << >>

----------------------------------------------------------------------------
(* The state machine.                                                       *)

Init ==
    /\ ConfigIdle
    /\ ScanIdle
    /\ CommentsIdle
    /\ ValidatorIdle
    /\ scratch_keys = {}
    /\ models = {}
    /\ non_models = {}
    /\ pending = << >>
    /\ declared = << >>
    /\ last_fqn = None
    /\ PipelineIdle
    /\ DriverIdle

\* A plain assignment scratch[key] = default instead of setdefault.
setdefault_Overwrite(key, stored, default) == default

\* dict.setdefault(key, default) on context.scratch, returning the value
\* stored under key afterwards.
setdefault(key, stored, default) == IF key \in scratch_keys THEN stored ELSE default

\* ClassDefVisitor.__init__: a visitor is constructed for the next file
\* against the shared scratch.
Construct ==
    /\ UNCHANGED scan_vars
    /\ UNCHANGED comment_vars
    /\ UNCHANGED validator_vars
    /\ UNCHANGED config_vars
    /\ scratch_keys' = scratch_keys \cup ContextKeys
    /\ models' = setdefault(BASE_MODEL_CONTEXT_KEY, models, SeedModels)
    /\ non_models' = setdefault(NO_BASE_MODEL_CONTEXT_KEY, non_models, {})
    /\ pending' = setdefault(PENDING_CLS_CONTEXT_KEY, pending, << >>)
    /\ last_fqn' = None
    /\ UNCHANGED <<declared, pipeline_vars, driver_vars>>

\* The constructed visitor observes one class declaration not observed before.
Visit ==
    /\ UNCHANGED scan_vars
    /\ UNCHANGED comment_vars
    /\ UNCHANGED validator_vars
    /\ UNCHANGED config_vars
    /\ ContextKeys \subseteq scratch_keys
    /\ \E fqn \in Classes \ DOMAIN declared, bases \in BaseLists :
         \E reg \in visit_ClassDef(fqn, bases, Registry) :
            /\ models' = reg.models
            /\ non_models' = reg.non_models
            /\ pending' = reg.pending
            /\ declared' = Put(declared, fqn, Declaration(bases))
            /\ last_fqn' = fqn
    /\ UNCHANGED <<scratch_keys, pipeline_vars, driver_vars>>

Next == Construct \/ Visit

Spec == Init /\ [][Next]_vars

----------------------------------------------------------------------------
(* Properties of the resolver.                                              *)

\* The class that this step observes is c.
Observing(c) == c \notin DOMAIN declared /\ c \in DOMAIN declared'

\* Scanned classes whose declaration has been observed and that are pending.
PendingClasses == DOMAIN pending \cap DOMAIN declared

RECURSIVE SetToSeq(_)
\* The elements of a finite set in some fixed order.
SetToSeq(S) ==
    IF S = {} THEN << >>
    ELSE LET x == CHOOSE y \in S : TRUE IN <<x>> \o SetToSeq(S \ {x})

\* A base list saying what declaration d says: an unresolved base expression
\* if d has one, then one base expression per name.
CanonicalBases(d) ==
    IF d.no_bases THEN << >>
    ELSE (IF d.unresolved THEN << << >> >> ELSE << >>) \o
         [i \in 1..Cardinality(d.names) |-> <<SetToSeq(d.names)[i]>>]

RECURSIVE Replay(_, _)
\* The registries that observing the declared classes in the given order can
\* end in, starting from the given registries.
Replay(order, regs) ==
    IF order = << >> THEN regs
    ELSE Replay(Tail(order),
                UNION {visit_ClassDef(Head(order), CanonicalBases(declared[Head(order)]), r) :
                       r \in regs})

\* The registry a first visitor starts from.
SeededRegistry == [models |-> SeedModels, non_models |-> {}, pending |-> << >>]

\* C1: order independence.  Once every class has been observed (in whatever
\* order this behaviour took), models and non_models are the ones that
\* observing the same declarations in one fixed order yields, so they are the
\* same for every observation order.
C1_OrderIndependent ==
    DOMAIN declared = Classes =>
        \A r \in Replay(SetToSeq(Classes), {SeededRegistry}) :
            r.models = models /\ r.non_models = non_models

\* Every class observed, through a forward-reference chain Foo(Bar), Bar(Baz),
\* Baz(BaseModel) whose root was observed last, all three members.
C1_Witness ==
    /\ DOMAIN declared = Classes
    /\ last_fqn = "some.test.third_module.Baz"
    /\ declared["some.test.module.Foo"].names = {"some.test.other_module.Bar"}
    /\ declared["some.test.other_module.Bar"].names = {"some.test.third_module.Baz"}
    /\ declared["some.test.third_module.Baz"].names = {"pydantic.BaseModel"}
    /\ Classes \subseteq models

C4_ShortCircuit ==
    [][\A c \in Classes :
         (Observing(c) /\ declared'[c].names \cap models # {}) =>
             (c \in models' /\ c \notin DOMAIN pending')]_vars

\* The latest visit observed a class with a non-member base and a member
\* base, and made it a member.
C4_Witness ==
    /\ last_fqn \in Classes
    /\ "pydantic.BaseModel" \in declared[last_fqn].names
    /\ \E b \in declared[last_fqn].names : b \in non_models
    /\ last_fqn \in models

\* C5: unanimous non-membership.  A pending class enters non_models in a
\* step only if all of its pending_bases are in non_models after the step;
\* while one of its pending_bases stays unresolved (and none became a
\* member), the step only removes from pending_bases the bases it marked
\* non-member, and the class stays pending.
C5_Unanimous ==
    [][\A d \in PendingClasses :
         LET pb == pending[d].pending_bases
         IN  /\ (d \in non_models') => (pb # {} /\ pb \subseteq non_models')
             /\ (pb \ (models' \cup non_models') # {} /\ pb \cap models' = {}) =>
                    /\ d \in DOMAIN pending'
                    /\ d \notin non_models'
                    /\ pending'[d].pending_bases = pb \ non_models']_vars

\* The latest visit marked a base of a pending class non-member while another
\* of its bases stays unresolved: the class is still pending, on that base.
C5_Witness ==
    /\ last_fqn \in non_models
    /\ \E d \in PendingClasses :
         /\ last_fqn \in declared[d].names
         /\ pending[d].pending_bases # {}
         /\ pending[d].pending_bases = declared[d].names \ {last_fqn}

\* C6: soundness of non-membership.  A class is in non_models only if it was
\* declared with no bases, or every base expression of its declaration
\* resolves and every resolved base name is in non_models.
C6_SoundNonMember ==
    \A c \in non_models :
        /\ c \in DOMAIN declared
        /\ \/ declared[c].no_bases
           \/ (~declared[c].unresolved /\ declared[c].names \subseteq non_models)

\* C7: forward reference.  Observing a class c whose single base f is in
\* neither models nor non_models leaves c pending on {f} and listed among the
\* subclasses of f's pending entry; and the visit that observes f and makes
\* it a member leaves every class pending on {f} in models and out of pending.
C7_ForwardReference ==
    [][\A c \in Classes, f \in BaseNames :
         /\ ( /\ Observing(c)
              /\ declared'[c].names = {f}
              /\ ~declared'[c].unresolved
              /\ f \notin models \cup non_models )
            => ( /\ c \in DOMAIN pending'
                 /\ pending'[c].pending_bases = {f}
                 /\ f \in DOMAIN pending'
                 /\ c \in pending'[f].subclasses )
         /\ ( /\ c \in PendingClasses
              /\ pending[c].pending_bases = {f}
              /\ Observing(f)
              /\ f \in models' )
            => ( c \in models' /\ c \notin DOMAIN pending' )]_vars

\* Bar(Baz) was observed before Baz; the latest visit observed Baz(BaseModel),
\* and Bar is a member and no longer pending.
C7_Witness ==
    /\ last_fqn = "some.test.third_module.Baz"
    /\ "some.test.other_module.Bar" \in DOMAIN declared
    /\ declared["some.test.other_module.Bar"].names = {"some.test.third_module.Baz"}
    /\ ~declared["some.test.other_module.Bar"].unresolved
    /\ declared["some.test.third_module.Baz"].names = {"pydantic.BaseModel"}
    /\ "some.test.other_module.Bar" \in models
    /\ "some.test.other_module.Bar" \notin DOMAIN pending

RECURSIVE Reachable(_, _)
\* The names reached from the names of frontier through the subclasses links
\* of the entries of pend.
Reachable(frontier, pend) ==
    LET next == frontier \cup
                UNION {pend[k].subclasses : k \in frontier \cap DOMAIN pend}
    IN  IF next = frontier THEN frontier ELSE Reachable(next, pend)

\* C8: transitive promotion.  When a visit makes the observed class a member
\* (_setIsModel was called for it), the class and every class that was
\* reachable from it through the subclasses links of pending entries are in
\* models and absent from pending afterwards.
C8_TransitivePromotion ==
    [][\A c \in Classes :
         (Observing(c) /\ c \in models') =>
             /\ Reachable({c}, pending) \subseteq models'
             /\ Reachable({c}, pending) \cap DOMAIN pending' = {}]_vars

\* The latest visit made Baz a member; Bar, pending on Baz and on another
\* base, and Foo, pending on Bar, were promoted with it.
C8_Witness ==
    /\ last_fqn = "some.test.third_module.Baz"
    /\ DOMAIN declared = Classes
    /\ declared["some.test.third_module.Baz"].names = {"pydantic.BaseModel"}
    /\ declared["some.test.other_module.Bar"].names = {"some.test.third_module.Baz", Unscanned}
    /\ declared["some.test.module.Foo"].names = {"some.test.other_module.Bar"}
    /\ Classes \subseteq models
    /\ Classes \cap DOMAIN pending = {}

\* C9: a class declared with an empty base list is in non_models, and in
\* neither models nor pending, from its observation on; and the classes that
\* were pending on it alone are non-members after that same step.
C9_NoBases ==
    /\ [](\A c \in DOMAIN declared :
            declared[c].no_bases =>
                (c \in non_models /\ c \notin models /\ c \notin DOMAIN pending))
    /\ [][\A c \in Classes :
            (Observing(c) /\ declared'[c].no_bases) =>
                \A d \in PendingClasses :
                    pending[d].pending_bases = {c} =>
                        (d \in non_models' /\ d \notin DOMAIN pending')]_vars

\* The latest visit observed a class without bases on which another class was
\* pending alone; both are non-members.
C9_Witness ==
    /\ last_fqn \in Classes
    /\ declared[last_fqn].no_bases
    /\ \E d \in DOMAIN declared \ {last_fqn} :
         /\ declared[d].names = {last_fqn}
         /\ ~declared[d].unresolved
         /\ d \in non_models

RECURSIVE Ancestors(_)
\* The names reached from the names of frontier through declared bases.
Ancestors(frontier) ==
    LET next == frontier \cup
                UNION {declared[k].names : k \in frontier \cap DOMAIN declared}
    IN  IF next = frontier THEN frontier ELSE Ancestors(next)

\* Class c has a base that leads to a seeded member.
LeadsToMember(c) == Ancestors(declared[c].names) \cap SeedModels # {}

\* Class c lies on an inheritance cycle.
OnCycle(c) == c \in Ancestors(declared[c].names)

\* C10: once every class has been observed, a class with a base that no
\* scanned file declares, or on an inheritance cycle, and with no base
\* leading to a known member, is in pending and in neither models nor
\* non_models.
C10_StaysPending ==
    DOMAIN declared = Classes =>
        \A c \in Classes :
            ((Unscanned \in declared[c].names \/ OnCycle(c)) /\ ~LeadsToMember(c)) =>
                (c \in DOMAIN pending /\ c \notin models /\ c \notin non_models)

\* Every class observed: Foo(Bar) and Bar(Foo) form a cycle, Baz has a base
\* outside the scanned set; all three are pending.
C10_Witness ==
    /\ DOMAIN declared = Classes
    /\ declared["some.test.module.Foo"].names = {"some.test.other_module.Bar"}
    /\ declared["some.test.other_module.Bar"].names = {"some.test.module.Foo"}
    /\ Unscanned \in declared["some.test.third_module.Baz"].names
    /\ Classes \subseteq DOMAIN pending

----------------------------------------------------------------------------
(* The rewrite pass pipeline (bump_pydantic/codemods/__init__.py and the    *)
(* loop of run_codemods in bump_pydantic/main.py).                          *)

\* The Rule enum.
Rule ==
    {"BP001", "BP002", "BP003", "BP004", "BP005", "BP006", "BP007",
     "BP008", "BP009", "BP010", "BP011", "BP012", "BP013", "BO001"}

\* if rule not in disabled: codemods.append(codemod)
AppendUnlessDisabled(list, rule, disabled_rules, codemod) ==
    IF rule \notin disabled_rules THEN Append(list, codemod) ELSE list

\* gather_codemods with the FieldCodemod block moved above the
\* ConFuncCallCommand block.
gather_codemods_FieldFirst(disabled_rules) ==
    LET c1 == AppendUnlessDisabled(<< >>, "BP001", disabled_rules, "AddDefaultNoneCommand")
        c2 == AppendUnlessDisabled(c1, "BP010", disabled_rules, "AddMissingAnnotationCommand")
        c3 == AppendUnlessDisabled(c2, "BP011", disabled_rules, "ReplaceModelAttributeAccessCommand")
        c4 == AppendUnlessDisabled(c3, "BP002", disabled_rules, "ReplaceConfigCodemod")
        c5 == AppendUnlessDisabled(c4, "BP003", disabled_rules, "FieldCodemod")
        c6 == AppendUnlessDisabled(c5, "BP008", disabled_rules, "ConFuncCallCommand")
        c7 == AppendUnlessDisabled(c6, "BP004", disabled_rules, "ReplaceImportsCodemod")
        c8 == AppendUnlessDisabled(c7, "BP005", disabled_rules, "ReplaceGenericModelCommand")
        c9 == AppendUnlessDisabled(c8, "BP006", disabled_rules, "RootModelCommand")
        c10 == AppendUnlessDisabled(c9, "BP007", disabled_rules, "ValidatorCodemod")
        c11 == AppendUnlessDisabled(c10, "BP009", disabled_rules, "CustomTypeCodemod")
        c12 == AppendUnlessDisabled(c11, "BP012", disabled_rules, "ReplaceFunctionsCodemod")
        c13 == AppendUnlessDisabled(c12, "BP013", disabled_rules, "WarnReplacedOverridesCommand")
        c14 == AppendUnlessDisabled(c13, "BO001", disabled_rules, "OrmarCodemod")
    IN  c14 \o <<"RemoveImportsVisitor", "AddImportsVisitor">>

\* gather_codemods with the two import visitors put in front of the list.
gather_codemods_ImportsFirst(disabled_rules) ==
    LET c1 == AppendUnlessDisabled(<<"RemoveImportsVisitor", "AddImportsVisitor">>,
                                   "BP001", disabled_rules, "AddDefaultNoneCommand")
        c2 == AppendUnlessDisabled(c1, "BP010", disabled_rules, "AddMissingAnnotationCommand")
        c3 == AppendUnlessDisabled(c2, "BP011", disabled_rules, "ReplaceModelAttributeAccessCommand")
        c4 == AppendUnlessDisabled(c3, "BP002", disabled_rules, "ReplaceConfigCodemod")
        c5 == AppendUnlessDisabled(c4, "BP008", disabled_rules, "ConFuncCallCommand")
        c6 == AppendUnlessDisabled(c5, "BP003", disabled_rules, "FieldCodemod")
        c7 == AppendUnlessDisabled(c6, "BP004", disabled_rules, "ReplaceImportsCodemod")
        c8 == AppendUnlessDisabled(c7, "BP005", disabled_rules, "ReplaceGenericModelCommand")
        c9 == AppendUnlessDisabled(c8, "BP006", disabled_rules, "RootModelCommand")
        c10 == AppendUnlessDisabled(c9, "BP007", disabled_rules, "ValidatorCodemod")
        c11 == AppendUnlessDisabled(c10, "BP009", disabled_rules, "CustomTypeCodemod")
        c12 == AppendUnlessDisabled(c11, "BP012", disabled_rules, "ReplaceFunctionsCodemod")
        c13 == AppendUnlessDisabled(c12, "BP013", disabled_rules, "WarnReplacedOverridesCommand")
    IN  AppendUnlessDisabled(c13, "BO001", disabled_rules, "OrmarCodemod")

\* gather_codemods(disabled): fourteen guarded appends in the order of the
\* source, then the two import visitors.
gather_codemods(disabled_rules) ==
    LET c1 == AppendUnlessDisabled(<< >>, "BP001", disabled_rules, "AddDefaultNoneCommand")
        c2 == AppendUnlessDisabled(c1, "BP010", disabled_rules, "AddMissingAnnotationCommand")
        c3 == AppendUnlessDisabled(c2, "BP011", disabled_rules, "ReplaceModelAttributeAccessCommand")
        c4 == AppendUnlessDisabled(c3, "BP002", disabled_rules, "ReplaceConfigCodemod")
        c5 == AppendUnlessDisabled(c4, "BP008", disabled_rules, "ConFuncCallCommand")
        c6 == AppendUnlessDisabled(c5, "BP003", disabled_rules, "FieldCodemod")
        c7 == AppendUnlessDisabled(c6, "BP004", disabled_rules, "ReplaceImportsCodemod")
        c8 == AppendUnlessDisabled(c7, "BP005", disabled_rules, "ReplaceGenericModelCommand")
        c9 == AppendUnlessDisabled(c8, "BP006", disabled_rules, "RootModelCommand")
        c10 == AppendUnlessDisabled(c9, "BP007", disabled_rules, "ValidatorCodemod")
        c11 == AppendUnlessDisabled(c10, "BP009", disabled_rules, "CustomTypeCodemod")
        c12 == AppendUnlessDisabled(c11, "BP012", disabled_rules, "ReplaceFunctionsCodemod")
        c13 == AppendUnlessDisabled(c12, "BP013", disabled_rules, "WarnReplacedOverridesCommand")
        c14 == AppendUnlessDisabled(c13, "BO001", disabled_rules, "OrmarCodemod")
    IN  c14 \o <<"RemoveImportsVisitor", "AddImportsVisitor">>

----------------------------------------------------------------------------
(* Source text.  A file is a sequence of lines; a tree is a sequence of     *)
(* rows, one per line, each carrying its text and the line number it had    *)
(* in the file it was parsed from (0 for a line a pass created).            *)

\* The class of the scanned module (foo = Foo(...) in the same file).
ModuleClass == "some.test.module.Foo"

ImportLine == "from pydantic import BaseModel"
ClassLine == "class Foo(BaseModel):"
UntypedLine == "    a = unknown()"
LiteralLine == "    b = 1"
ConfigLine == "    class Config:"
ConfigKeyLine == "        strict = True"
AccessLine == "foo.dict()"
PlainLine == "x = 1"
BrokenLine == "class (:"

\* Lines only a pass writes.
AnnotationTodoLine == "    # TODO[pydantic]: all model fields must have a type annotation."
AnnotatedLine == "    b: int = 1"
ModelConfigLine == "    model_config = ConfigDict(strict=True)"
NewAccessLine == "foo.model_dump()"
MergedImportLine == "from pydantic import ConfigDict, BaseModel"
ConfigDictImportLine == "from pydantic import ConfigDict"

\* cst.parse_module(code): one row per line at its own line number.
parse_module(text) == [i \in 1..Len(text) |-> [text |-> text[i], origin |-> i]]

\* Module.code: the text of the rows, in order.
tree_code(tree) == [i \in 1..Len(tree) |-> tree[i].text]

\* A row a pass creates.
NewRow(text) == [text |-> text, origin |-> 0]

RECURSIVE Concat(_)
\* The rows of a sequence of row sequences, in order.
Concat(seqs) == IF seqs = << >> THEN << >> ELSE Head(seqs) \o Concat(Tail(seqs))

\* self._is_pydantic_model(node) for the ClassDef of the file's class.
_is_pydantic_model(pydantic_model_bases) == ModuleClass \in pydantic_model_bases

\* self.get_metadata(NonCachedTypeInferenceProvider, node, None): the types
\* were inferred for the file as it is on disk and are keyed by source
\* position, so the node in row i of the tree is found only when row i is
\* the line it was on in the file.
NonCachedTypeInference(text, tree, i) ==
    IF tree[i].origin = i /\ text[i] = AccessLine THEN ModuleClass ELSE None

ADD_IMPORTS_KEY == "AddImportsVisitor"
REMOVE_IMPORTS_KEY == "RemoveImportsVisitor"

\* AddImportsVisitor.add_needed_import(context, module, obj)
add_needed_import(scratch, import) ==
    Put(scratch, ADD_IMPORTS_KEY,
        (IF ADD_IMPORTS_KEY \in DOMAIN scratch THEN scratch[ADD_IMPORTS_KEY] ELSE {}) \cup {import})

\* AddMissingAnnotationCommand: a literal gets its annotation; an untyped
\* member whose type is not inferred gets the comment in front of its line.
AddMissingAnnotationCommand(tree, pydantic_model_bases) ==
    Concat([i \in 1..Len(tree) |->
        IF ~_is_pydantic_model(pydantic_model_bases) THEN <<tree[i]>>
        ELSE IF tree[i].text = LiteralLine THEN <<[tree[i] EXCEPT !.text = AnnotatedLine]>>
        ELSE IF tree[i].text = UntypedLine THEN <<NewRow(AnnotationTodoLine), tree[i]>>
        ELSE <<tree[i]>>])

\* ReplaceModelAttributeAccessCommand.leave_model_attr
leave_model_attr(text, tree, pydantic_model_bases) ==
    [i \in 1..Len(tree) |->
        IF /\ tree[i].text = AccessLine
           /\ NonCachedTypeInference(text, tree, i) \in pydantic_model_bases
        THEN [tree[i] EXCEPT !.text = NewAccessLine]
        ELSE tree[i]]

\* ReplaceConfigCodemod.leave_config_class_childless: the nested Config
\* statement is replaced by one model_config statement.
leave_config_class_childless(tree, pydantic_model_bases) ==
    Concat([i \in 1..Len(tree) |->
        IF ~_is_pydantic_model(pydantic_model_bases) THEN <<tree[i]>>
        ELSE IF tree[i].text = ConfigLine THEN <<NewRow(ModelConfigLine)>>
        ELSE IF tree[i].text = ConfigKeyLine THEN << >>
        ELSE <<tree[i]>>])

HasConfig(tree) == \E i \in 1..Len(tree) : tree[i].text = ConfigLine

\* AddImportsVisitor: the requested name joins the import of its module, or
\* gets an import statement of its own at the top.
AddImportsVisitor(tree, scratch) ==
    IF ADD_IMPORTS_KEY \notin DOMAIN scratch \/ scratch[ADD_IMPORTS_KEY] = {} THEN tree
    ELSE IF \E i \in 1..Len(tree) : tree[i].text = ImportLine
    THEN [i \in 1..Len(tree) |->
            IF tree[i].text = ImportLine THEN [tree[i] EXCEPT !.text = MergedImportLine]
            ELSE tree[i]]
    ELSE <<NewRow(ConfigDictImportLine)>> \o tree

\* The passes whose modules are imported by codemods/__init__.py.
AbsentCodemods ==
    {"AddDefaultNoneCommand", "ConFuncCallCommand", "CustomTypeCodemod", "FieldCodemod",
     "ReplaceGenericModelCommand"}

\* A pass of AbsentCodemods, by the contract of the pipeline: it reads the
\* registry and rewrites what it recognises, of which the sources here hold
\* nothing.
absent_codemod(tree, scratch, shared) ==
    [tree |-> tree, scratch |-> scratch, shared |-> shared]

\* A pass that records what it finds in the set it was given.
membership_tests_Recording(pydantic_model_bases) ==
    pydantic_model_bases \cup {"typing.Any"}

\* What "fqn.name in self.pydantic_model_bases" leaves of the set the pass
\* took from scratch[key]: the passes test membership and nothing else.
membership_tests(pydantic_model_bases) == pydantic_model_bases

\* transformer = codemod(context=context); transformer.transform_module(tree):
\* the output tree, the context's scratch and the objects it refers to
\* afterwards.
transform_module(codemod, text, tree, scratch, shared) ==
    LET pydantic_model_bases == shared[scratch[BASE_MODEL_CONTEXT_KEY]]
        read == [shared EXCEPT ![scratch[BASE_MODEL_CONTEXT_KEY]] = membership_tests(@)]
    IN  CASE codemod = "AddMissingAnnotationCommand" ->
                [tree |-> AddMissingAnnotationCommand(tree, pydantic_model_bases),
                 scratch |-> scratch, shared |-> read]
          [] codemod = "ReplaceModelAttributeAccessCommand" ->
                [tree |-> leave_model_attr(text, tree, pydantic_model_bases),
                 scratch |-> scratch, shared |-> read]
          [] codemod = "ReplaceConfigCodemod" ->
                [tree |-> leave_config_class_childless(tree, pydantic_model_bases),
                 scratch |-> IF HasConfig(tree) /\ _is_pydantic_model(pydantic_model_bases)
                             THEN add_needed_import(scratch, "pydantic.ConfigDict")
                             ELSE scratch,
                 shared |-> read]
          [] codemod = "AddImportsVisitor" ->
                [tree |-> AddImportsVisitor(tree, scratch), scratch |-> scratch,
                 shared |-> shared]
          [] codemod \in AbsentCodemods -> absent_codemod(tree, scratch, shared)
          [] OTHER -> [tree |-> tree, scratch |-> scratch, shared |-> shared]

RECURSIVE run_passes(_, _, _, _, _)
\* for codemod in codemods: ... input_tree = output_tree
run_passes(list, text, tree, scratch, shared) ==
    IF list = << >> THEN [tree |-> tree, scratch |-> scratch, shared |-> shared]
    ELSE LET out == transform_module(Head(list), text, tree, scratch, shared)
         IN  run_passes(Tail(list), text, out.tree, out.scratch, out.shared)

----------------------------------------------------------------------------
(* One file through the pipeline: main gathers the passes for the disabled  *)
(* rules, run_codemods reads and parses the file and applies the passes one *)
(* after the other.                                                         *)

FullSource ==
    <<ImportLine, ClassLine, UntypedLine, LiteralLine, ConfigLine, ConfigKeyLine, AccessLine>>
AccessSource == <<ImportLine, ClassLine, LiteralLine, AccessLine>>
ConfigSource == <<ClassLine, ConfigLine, ConfigKeyLine>>
PlainSource == <<PlainLine>>

\* Files cst.parse_module accepts (none of them empty).
Sources == {FullSource, AccessSource, ConfigSource, PlainSource}

\* What the scan of the module declaring class Foo(BaseModel) left in scratch.
ScannedModule == visit_ClassDef(ModuleClass, << <<"pydantic.BaseModel">> >>, SeededRegistry)

\* The resolution scan is over: scratch holds its three registry entries.
Scanned ==
    /\ scratch_keys = ContextKeys
    /\ \E reg \in ScannedModule :
          /\ models = reg.models
          /\ non_models = reg.non_models
          /\ pending = reg.pending
    /\ declared = Put(<< >>, ModuleClass, Declaration(<< <<"pydantic.BaseModel">> >>))
    /\ last_fqn = ModuleClass

\* The objects the entries of scratch refer to.
SharedObjects ==
    [base_model_cls |-> models, no_base_model_cls |-> non_models, unknown_cls |-> pending]

\* context.scratch.update(scratch) on the scratch of a new CodemodContext:
\* every key of scratch, bound to the object scratch binds it to.
update(scratch_of_context, keys) ==
    [k \in DOMAIN scratch_of_context \cup keys |->
        IF k \in keys THEN k ELSE scratch_of_context[k]]

InitPipeline ==
    /\ ConfigIdle
    /\ ScanIdle
    /\ CommentsIdle
    /\ ValidatorIdle
    /\ Scanned
    /\ DriverIdle
    /\ disabled \in SUBSET Rule
    /\ codemods = << >>
    /\ context_scratch = << >>
    /\ code = << >>
    /\ input_tree = << >>
    /\ received = << >>

\* main: codemods = gather_codemods(disabled=disable)
GatherCodemods ==
    /\ UNCHANGED scan_vars
    /\ UNCHANGED comment_vars
    /\ UNCHANGED validator_vars
    /\ UNCHANGED config_vars
    /\ codemods = << >>
    /\ codemods' = gather_codemods(disabled)
    /\ UNCHANGED <<resolver_vars, driver_vars, disabled, context_scratch, code, input_tree, received>>

\* run_codemods up to the loop: a new context, the shared entries copied
\* into its scratch, the file read and parsed.
ParseModule ==
    /\ UNCHANGED scan_vars
    /\ UNCHANGED comment_vars
    /\ UNCHANGED validator_vars
    /\ UNCHANGED config_vars
    /\ codemods # << >>
    /\ code = << >>
    /\ \E text \in Sources :
          /\ code' = text
          /\ input_tree' = parse_module(text)
    /\ context_scratch' = update(<< >>, scratch_keys)
    /\ received' = << >>
    /\ UNCHANGED <<resolver_vars, driver_vars, disabled, codemods>>

\* One iteration of "for codemod in codemods": the pass is constructed on
\* the context and transforms input_tree; its output is the next input_tree.
Transform ==
    /\ UNCHANGED scan_vars
    /\ UNCHANGED comment_vars
    /\ UNCHANGED validator_vars
    /\ UNCHANGED config_vars
    /\ code # << >>
    /\ Len(received) < Len(codemods)
    /\ LET codemod == codemods[Len(received) + 1]
           out == transform_module(codemod, code, input_tree, context_scratch, SharedObjects)
       IN  /\ input_tree' = out.tree
           /\ context_scratch' = out.scratch
           /\ models' = out.shared.base_model_cls
           /\ non_models' = out.shared.no_base_model_cls
           /\ pending' = out.shared.unknown_cls
           /\ received' = Append(received,
                  [codemod |-> codemod, tree |-> input_tree, scratch |-> context_scratch])
    /\ UNCHANGED <<scratch_keys, declared, last_fqn, driver_vars, disabled, codemods, code>>

NextPipeline == GatherCodemods \/ ParseModule \/ Transform

SpecPipeline == InitPipeline /\ [][NextPipeline]_vars

----------------------------------------------------------------------------
(* Properties of the pipeline.                                              *)

\* The pass each rule stands for.
RuleCodemod ==
    [BP001 |-> "AddDefaultNoneCommand", BP002 |-> "ReplaceConfigCodemod",
     BP003 |-> "FieldCodemod", BP004 |-> "ReplaceImportsCodemod",
     BP005 |-> "ReplaceGenericModelCommand", BP006 |-> "RootModelCommand",
     BP007 |-> "ValidatorCodemod", BP008 |-> "ConFuncCallCommand",
     BP009 |-> "CustomTypeCodemod", BP010 |-> "AddMissingAnnotationCommand",
     BP011 |-> "ReplaceModelAttributeAccessCommand", BP012 |-> "ReplaceFunctionsCodemod",
     BP013 |-> "WarnReplacedOverridesCommand", BO001 |-> "OrmarCodemod"]

ImportVisitors == {"RemoveImportsVisitor", "AddImportsVisitor"}

\* The passes of the rules that are not disabled.
EnabledCodemods == {RuleCodemod[r] : r \in Rule \ disabled}

\* Position of a pass in the gathered list, 0 when it is not in it.
IndexOf(codemod) ==
    IF \E i \in DOMAIN codemods : codemods[i] = codemod
    THEN CHOOSE i \in DOMAIN codemods : codemods[i] = codemod
    ELSE 0

\* The pipeline ran to the end of the gathered list.
AllApplied == codemods # << >> /\ code # << >> /\ Len(received) = Len(codemods)

\* C13: whatever rules are disabled, the gathered list ends with
\* RemoveImportsVisitor followed by AddImportsVisitor, and the pass of every
\* enabled rule stands before both.
C13_ImportsLast ==
    codemods # << >> =>
        LET n == Len(codemods)
        IN  /\ n >= 2
            /\ codemods[n - 1] = "RemoveImportsVisitor"
            /\ codemods[n] = "AddImportsVisitor"
            /\ \A c \in EnabledCodemods : IndexOf(c) \in 1..(n - 2)
            /\ \A i \in 1..(n - 2) : codemods[i] \notin ImportVisitors

C13_Witness ==
    /\ AllApplied
    /\ disabled = {"BP002", "BP010"}
    /\ Len(codemods) = 14
    /\ received[14].codemod = "AddImportsVisitor"

\* C14: whatever rules are disabled, the gathered list is the full list
\* without the passes of the disabled rules, in the same relative order,
\* with ConFuncCallCommand before FieldCodemod when both are enabled; and
\* run_codemods applies the list in order, each pass to the tree the
\* previous pass returned.
C14_OrderKept ==
    codemods # << >> =>
        /\ codemods = SelectSeq(gather_codemods({}),
                                LAMBDA c : c \in EnabledCodemods \cup ImportVisitors)
        /\ {"BP008", "BP003"} \cap disabled = {} =>
              /\ IndexOf("ConFuncCallCommand") > 0
              /\ IndexOf("ConFuncCallCommand") < IndexOf("FieldCodemod")
        /\ \A k \in DOMAIN received :
              /\ received[k].codemod = codemods[k]
              /\ received[k].tree =
                    IF k = 1 THEN parse_module(code)
                    ELSE transform_module(codemods[k - 1], code, received[k - 1].tree,
                                          received[k - 1].scratch, SharedObjects).tree
        /\ received # << >> =>
              input_tree = transform_module(received[Len(received)].codemod, code,
                                            received[Len(received)].tree,
                                            received[Len(received)].scratch,
                                            SharedObjects).tree

C14_Witness ==
    /\ AllApplied
    /\ disabled = {"BP001", "BP004"}
    /\ IndexOf("ConFuncCallCommand") = 4
    /\ IndexOf("FieldCodemod") = 5
    /\ code = FullSource
    /\ tree_code(input_tree) # code

\* The passes that ask NonCachedTypeInferenceProvider for the type of a node.
PositionLookupPasses == {"AddMissingAnnotationCommand", "ReplaceModelAttributeAccessCommand"}

\* Every row of the tree is on the line it had in the file.
OriginalLineNumbers(tree) ==
    /\ Len(tree) = Len(code)
    /\ \A i \in DOMAIN tree : tree[i].origin = i

\* C15: in every pipeline, a pass that looks types up by source position
\* receives a tree whose line numbers are those of the file: no pass before
\* it has inserted or removed a line.
C15_OriginalLineNumbers ==
    \A k \in DOMAIN received :
        received[k].codemod \in PositionLookupPasses => OriginalLineNumbers(received[k].tree)

----------------------------------------------------------------------------
(* The rewrite phase of main: run_codemods_batched runs run_codemods on     *)
(* each file of a batch, main collects what the batches return and exits.   *)

\* The files of the run, fewer than batch_size (16): one batch.
Files == {"a.py", "b.py"}

\* The orders in which the batch lists the files.
FileOrders == {<<"a.py", "b.py">>, <<"b.py", "a.py">>}

\* A file cst.parse_module raises ParserSyntaxError on.
BrokenSource == <<BrokenLine>>

\* "An error happened on {filename}." of scan_for_classes, for each file
\* that does not parse.
RECURSIVE scan_errors(_, _)
scan_errors(list, texts) ==
    IF list = << >> THEN << >>
    ELSE (IF texts[Head(list)] = BrokenSource
          THEN << <<"An error happened on", Head(list)>> >> ELSE << >>)
         \o scan_errors(Tail(list), texts)

\* The scratch of a CodemodContext constructed without a scratch argument.
CodemodContext_scratch_Kept(previous) == previous

\* CodemodContext(metadata_manager=..., filename=..., ...): scratch defaults
\* to a new empty dict, whatever the context of the file before held.
CodemodContext_scratch(previous) == << >>

\* difflib.unified_diff(a, b): the two header lines and the changed lines,
\* nothing when a and b are equal.
unified_diff(a, b) ==
    IF a = b THEN << >>
    ELSE <<"---", "+++">>
         \o SelectSeq(a, LAMBDA l : \A i \in DOMAIN b : b[i] # l)
         \o SelectSeq(b, LAMBDA l : \A i \in DOMAIN a : a[i] # l)

\* fp.seek(0); fp.write(data): data over the start of the file.
write(content, data) ==
    [i \in 1..(IF Len(content) > Len(data) THEN Len(content) ELSE Len(data)) |->
        IF i <= Len(data) THEN data[i] ELSE content[i]]

\* A truncate that leaves the file as long as it was.
truncate_Skipped(content, size) == content

\* fp.truncate(): the file ends at the current position.
truncate(content, size) == SubSeq(content, 1, size)

NoError == << >>

\* The state after the scan: the files on disk, the scan's errors counted
\* and logged.
InitRun ==
    /\ ConfigIdle
    /\ ScanIdle
    /\ CommentsIdle
    /\ ValidatorIdle
    /\ Scanned
    /\ PipelineIdle
    /\ pc = "main"
    /\ diff = FALSE
    /\ process_single_file = None
    /\ disk \in [Files -> Sources \cup {BrokenSource}]
    /\ \E order \in FileOrders :
          /\ filenames = order
          /\ log_fp = scan_errors(order, disk)
          /\ count_errors = Len(scan_errors(order, disk))
    /\ errors = << >>
    /\ diffs = << >>
    /\ difflines = << >>
    /\ exit_code = 0
    /\ returned = << >>

\* main from gather_codemods to the call of run_codemods_batched: with
\* --process-single-file the batch is that file, else the files found.
StartRewrite ==
    /\ UNCHANGED scan_vars
    /\ UNCHANGED comment_vars
    /\ UNCHANGED validator_vars
    /\ UNCHANGED config_vars
    /\ pc = "main"
    /\ pc' = "batch"
    /\ disabled' \in {{}, {"BP010"}, Rule}
    /\ codemods' = gather_codemods(disabled')
    /\ diff' \in BOOLEAN
    /\ process_single_file' \in Files \cup {None}
    /\ filenames' = IF process_single_file' = None THEN filenames
                    ELSE <<process_single_file'>>
    /\ UNCHANGED <<resolver_vars, context_scratch, code, input_tree, received, disk, errors,
                   diffs, count_errors, log_fp, difflines, exit_code, returned>>

\* One iteration of run_codemods_batched: run_codemods on the next file,
\* its error and its diff appended to the batch's lists.
RunFile ==
    /\ UNCHANGED scan_vars
    /\ UNCHANGED comment_vars
    /\ UNCHANGED validator_vars
    /\ UNCHANGED config_vars
    /\ pc = "batch"
    /\ filenames # << >>
    /\ LET filename == Head(filenames)
           text == disk[filename]
           scratch == update(CodemodContext_scratch(context_scratch), scratch_keys)
       IN  \E raised \in BOOLEAN :
             LET out == run_passes(codemods, text, parse_module(text), scratch, SharedObjects)
                 output_code == tree_code(out.tree)
                 changed == text # output_code
                 one_error ==
                    IF text = BrokenSource THEN <<"A syntax error happened on", filename>>
                    ELSE IF raised THEN <<"An error happened on", filename>>
                    ELSE NoError
                 one_difflines ==
                    IF one_error = NoError /\ changed /\ diff
                    THEN unified_diff(text, output_code) ELSE << >>
             IN  /\ code' = text
                 /\ input_tree' = IF one_error = NoError THEN out.tree ELSE << >>
                 /\ context_scratch' = IF one_error = NoError THEN out.scratch ELSE scratch
                 /\ models' = IF one_error = NoError THEN out.shared.base_model_cls ELSE models
                 /\ non_models' =
                        IF one_error = NoError THEN out.shared.no_base_model_cls ELSE non_models
                 /\ pending' = IF one_error = NoError THEN out.shared.unknown_cls ELSE pending
                 /\ disk' = IF one_error = NoError /\ changed /\ ~diff
                            THEN [disk EXCEPT ![filename] =
                                     truncate(write(@, output_code), Len(output_code))]
                            ELSE disk
                 /\ errors' = IF one_error # NoError THEN Append(errors, one_error) ELSE errors
                 /\ diffs' = IF one_difflines # << >> THEN Append(diffs, one_difflines)
                             ELSE diffs
                 /\ returned' = Put(returned, filename,
                        [code |-> text, error |-> one_error, difflines |-> one_difflines,
                         output_code |-> IF one_error = NoError THEN output_code ELSE << >>])
    /\ filenames' = Tail(filenames)
    /\ UNCHANGED <<scratch_keys, declared, last_fqn, disabled, codemods, received, pc, diff,
                   process_single_file, count_errors, log_fp, difflines, exit_code>>

\* The batch returns (errors, diffs).  In single file mode main binds them
\* to "error, difflines"; for a batch of the pool it extends difflines and,
\* if there are errors, counts and logs them.
BatchReturns ==
    /\ UNCHANGED scan_vars
    /\ UNCHANGED comment_vars
    /\ UNCHANGED validator_vars
    /\ UNCHANGED config_vars
    /\ pc = "batch"
    /\ filenames = << >>
    /\ pc' = "summary"
    /\ IF process_single_file # None
       THEN /\ difflines' = diffs
            /\ UNCHANGED <<count_errors, log_fp>>
       ELSE /\ difflines' = difflines \o diffs
            /\ count_errors' = count_errors + Len(errors)
            /\ log_fp' = log_fp \o errors
    /\ UNCHANGED <<resolver_vars, pipeline_vars, diff, process_single_file, disk, filenames,
                   errors, diffs, exit_code, returned>>

\* The end of main: raise Exit(1) if difflines, else the function returns.
Exit ==
    /\ UNCHANGED scan_vars
    /\ UNCHANGED comment_vars
    /\ UNCHANGED validator_vars
    /\ UNCHANGED config_vars
    /\ pc = "summary"
    /\ pc' = "exited"
    /\ exit_code' = IF difflines # << >> THEN 1 ELSE 0
    /\ UNCHANGED <<resolver_vars, pipeline_vars, diff, process_single_file, disk, filenames,
                   errors, diffs, count_errors, log_fp, difflines, returned>>

NextRun == StartRewrite \/ RunFile \/ BatchReturns \/ Exit

SpecRun == InitRun /\ [][NextRun]_vars

----------------------------------------------------------------------------
(* Properties of the rewrite phase.                                         *)

\* The files run_codemods returned an error for.
Failed == {f \in DOMAIN returned : returned[f].error # NoError}

\* The files whose passes all completed with an output other than the input.
Rewritten ==
    {f \in DOMAIN returned :
        returned[f].error = NoError /\ returned[f].output_code # returned[f].code}

\* What the pipeline makes of a text in a context of its own.
AloneInContext(text) ==
    run_passes(codemods, text, parse_module(text), update(<< >>, ContextKeys), SharedObjects)

\* C11: the registry is frozen in the rewrite phase: no step of the phase,
\* and so no pass run by run_codemods, adds to or removes from models,
\* non_models or pending; they stay what the scan left.
C11_RegistryFrozen ==
    [][models' = models /\ non_models' = non_models /\ pending' = pending]_vars

C11_Witness ==
    /\ pc = "exited"
    /\ disabled = {}
    /\ Rewritten = Files
    /\ models = SeedModels \cup {ModuleClass}

\* C12: each file runs in a context of its own: the import requests and
\* other deferred state of one file are absent from the next file's context
\* and from the shared scratch, and a file's output is what the pipeline
\* makes of it alone, whatever ran before.
C12_PerFileIsolation ==
    /\ scratch_keys = ContextKeys
    /\ \A f \in DOMAIN returned :
          returned[f].error = NoError =>
             returned[f].output_code = tree_code(AloneInContext(returned[f].code).tree)
    /\ input_tree # << >> => context_scratch = AloneInContext(code).scratch

C12_Witness ==
    /\ pc = "exited"
    /\ disabled = {}
    /\ DOMAIN returned = Files
    /\ returned["a.py"].code = ConfigSource
    /\ "a.py" \in Rewritten
    /\ returned["b.py"].code = AccessSource
    /\ code = AccessSource
    /\ returned["b.py"].output_code[1] = ImportLine
    /\ ADD_IMPORTS_KEY \notin DOMAIN context_scratch

\* C16: the run exits non-zero whenever the output of at least one
\* processed file differs from its input, in place as well as with --diff.
C16_ExitNonZero ==
    (pc = "exited" /\ Rewritten # {}) => exit_code # 0

\* C17: no partial writes: when run_codemods returns an error for a file the
\* file on disk is as it was, and a file changes on disk only in a call in
\* which every pass completed, to exactly the complete output.
C17_NoPartialWrite ==
    [][\A f \in Files :
          /\ (f \in DOMAIN returned' /\ f \notin DOMAIN returned
              /\ returned'[f].error # NoError) => disk'[f] = disk[f]
          /\ disk'[f] # disk[f] =>
                /\ f \in DOMAIN returned'
                /\ returned'[f].error = NoError
                /\ returned'[f].code = disk[f]
                /\ returned'[f].output_code = tree_code(AloneInContext(disk[f]).tree)
                /\ disk'[f] = returned'[f].output_code]_vars

C17_Witness ==
    /\ ~diff
    /\ DOMAIN returned = Files
    /\ \E f, g \in Files :
          /\ returned[f].error = NoError
          /\ Len(returned[f].output_code) < Len(returned[f].code)
          /\ disk[f] = returned[f].output_code
          /\ returned[g].error # NoError
          /\ disk[g] = returned[g].code

\* C18: an error in one file does not stop the files after it, and every
\* error run_codemods returns is counted in count_errors and written to the
\* log file, with the pool as well as in single file mode.
C18_ErrorsRecorded ==
    pc = "exited" =>
        /\ DOMAIN returned = (IF process_single_file = None THEN Files
                              ELSE {process_single_file})
        /\ \A f \in Failed : \E i \in DOMAIN log_fp : log_fp[i] = returned[f].error
        /\ count_errors = Len(log_fp)

----------------------------------------------------------------------------
(* ReplaceConfigCodemod (bump_pydantic/codemods/replace_config.py): one     *)
(* instance traverses the top-level classes of a module.  For every class   *)
(* node the functions hooked with @m.visit run before visit_ClassDef, and   *)
(* leave_ClassDef runs before the functions hooked with @m.leave, which     *)
(* are matched against the original node.                                   *)

\* Largest number of top-level classes in a module.
MaxClasses == 2

\* Keys a nested Config assigns (neither renamed nor removed ones).
ConfigKeys == {"strict", "allow_arbitrary_types"}

\* Base lists: none; a base outside known_members; a base that makes the
\* class a known member; BaseSettings, the class not a known member;
\* BaseSettings, the class a known member.
BaseKinds == {"none", "other", "model", "settings", "settings_model"}

\* Annotated fields: none; "model_config: ..."; a field named model_...
FieldKinds == {"none", "model_config", "model_x"}

\* Nested Config classes: only assignments; an assignment and a method;
\* a Config with a base; the last two possibly already under their marker.
NestedConfigs ==
    {[config |-> "plain", key |-> k, commented |-> FALSE] : k \in ConfigKeys}
    \cup {[config |-> c, key |-> k, commented |-> m] :
             c \in {"invalid", "inherited"}, k \in ConfigKeys, m \in BOOLEAN}
    \cup {[config |-> "none", key |-> "", commented |-> FALSE]}

\* The top-level class statements of the modules: a module-level class
\* named Config, and classes with every base list, field and nested Config.
ClassDefs ==
    {[name |-> "Config", bases |-> "none", fields |-> "none", config |-> "none",
      key |-> "strict", commented |-> FALSE]}
    \cup {[name |-> "Potato", bases |-> b, fields |-> f, config |-> c.config,
           key |-> c.key, commented |-> c.commented] :
             b \in BaseKinds, f \in FieldKinds, c \in NestedConfigs}

\* ClassInfo(is_model=..., field_starts_with_model=...)
ClassInfo(is_model, field_starts_with_model) ==
    [is_model |-> is_model, field_starts_with_model |-> field_starts_with_model]

\* self._is_pydantic_model(node) for a top-level class.
IsKnownMember(n) == n.bases \in {"model", "settings_model"}

\* m.ClassDef(bases=[m.ZeroOrMore(), m.Arg(), m.ZeroOrMore()], ...)
HasBases(n) == n.bases # "none"

\* m.ClassDef(bases=[..., m.Arg(value=m.Name("BaseSettings")), ...])
HasBaseSettings(n) == n.bases \in {"settings", "settings_model"}

BASE_MODEL_WITH_CONFIG(n) == HasBases(n) /\ n.config \in {"plain", "invalid"}
BASE_MODEL_WITH_INHERITED_CONFIG(n) == HasBases(n) /\ n.config = "inherited"
BASE_MODEL_WITH_INVALID_CONFIG(n) == HasBases(n) /\ n.config = "invalid"
BASE_MODEL_WITH_MODEL_CONFIG_FIELD(n) == HasBases(n) /\ n.fields = "model_config"

\* self.class_stack[-1].is_model, False on an empty stack.
TopIsModel == class_stack # << >> /\ class_stack[Len(class_stack)].is_model

\* leave_config_class without the branch for invalid_config_class.
leave_config_class_NoRefactor(commented) ==
    IF (invalid_config_class \/ inherited_config_class) /\ commented THEN "none"
    ELSE IF inherited_config_class THEN "inherit"
    ELSE "none"

\* The comment leave_config_class puts before a class named Config.
leave_config_class(commented) ==
    IF (invalid_config_class \/ inherited_config_class) /\ commented THEN "none"
    ELSE IF invalid_config_class THEN "refactor"
    ELSE IF inherited_config_class THEN "inherit"
    ELSE "none"

InitConfig ==
    /\ ConfigIdle
    /\ ScanIdle
    /\ CommentsIdle
    /\ ValidatorIdle
    /\ Scanned
    /\ PipelineIdle
    /\ DriverIdle

\* on_visit of a top-level ClassDef: the @m.visit functions that match,
\* visit_ClassDef, then visit_AnnAssign and leave_SimpleStatementLine for
\* the annotated fields of the body.
on_visit_ClassDef ==
    /\ UNCHANGED scan_vars
    /\ UNCHANGED comment_vars
    /\ UNCHANGED validator_vars
    /\ position = "module"
    /\ visited < MaxClasses
    /\ \E n \in ClassDefs :
          /\ node' = n
          /\ is_base_settings' = (HasBaseSettings(n) \/ is_base_settings)
          /\ inherited_config_class' =
                (BASE_MODEL_WITH_INHERITED_CONFIG(n) \/ inherited_config_class)
          /\ invalid_config_class' =
                (BASE_MODEL_WITH_INVALID_CONFIG(n) \/ BASE_MODEL_WITH_MODEL_CONFIG_FIELD(n)
                 \/ invalid_config_class)
          /\ class_stack' = Append(class_stack,
                ClassInfo(IsKnownMember(n), IsKnownMember(n) /\ n.fields = "model_x"))
          /\ updated_fields' = (IsKnownMember(n) /\ n.fields = "model_config")
    /\ visited' = visited + 1
    /\ position' = "class"
    /\ updated_config' = "none"
    /\ emitted' = NothingEmitted
    /\ UNCHANGED <<resolver_vars, pipeline_vars, driver_vars, inside_config_class,
                   config_args, last_class>>

\* on_visit of the nested Config: visit_config_class, then visit_ClassDef.
on_visit_Config ==
    /\ UNCHANGED scan_vars
    /\ UNCHANGED comment_vars
    /\ UNCHANGED validator_vars
    /\ position = "class"
    /\ node.config # "none"
    /\ inside_config_class' = (TopIsModel \/ inside_config_class)
    /\ class_stack' = Append(class_stack, ClassInfo(FALSE, FALSE))
    /\ position' = "config"
    /\ UNCHANGED <<resolver_vars, pipeline_vars, driver_vars, node, visited, is_base_settings,
                   invalid_config_class, inherited_config_class, config_args, last_class,
                   updated_config, updated_fields, emitted>>

\* visit_AssignTarget for the assignment in the body of the nested Config.
visit_AssignTarget ==
    /\ UNCHANGED scan_vars
    /\ UNCHANGED comment_vars
    /\ UNCHANGED validator_vars
    /\ position = "config"
    /\ config_args' = IF inside_config_class THEN Append(config_args, node.key)
                      ELSE config_args
    /\ position' = "config_body"
    /\ UNCHANGED <<resolver_vars, pipeline_vars, driver_vars, node, visited,
                   inside_config_class, is_base_settings, invalid_config_class,
                   inherited_config_class, class_stack, last_class, updated_config,
                   updated_fields, emitted>>

\* on_leave of the nested Config: leave_ClassDef, then leave_config_class.
on_leave_Config ==
    /\ UNCHANGED scan_vars
    /\ UNCHANGED comment_vars
    /\ UNCHANGED validator_vars
    /\ position = "config_body"
    /\ last_class' = <<class_stack[Len(class_stack)]>>
    /\ class_stack' = SubSeq(class_stack, 1, Len(class_stack) - 1)
    /\ inside_config_class' = FALSE
    /\ updated_config' = leave_config_class(node.commented)
    /\ position' = "after_config"
    /\ UNCHANGED <<resolver_vars, pipeline_vars, driver_vars, node, visited, is_base_settings,
                   invalid_config_class, inherited_config_class, config_args, updated_fields,
                   emitted>>

\* The node with what its children returned.
UpdatedNode ==
    [node |-> node, comment |-> updated_config, field_comment |-> updated_fields,
     converted |-> FALSE, args |-> << >>, call |-> ""]

\* "return original_node": what the children returned is dropped.
OriginalNode == [NothingEmitted EXCEPT !.node = node]

\* on_leave of a top-level ClassDef: leave_ClassDef, then the @m.leave
\* function the original node matches: leave_config_class for a class named
\* Config, leave_inherited_config_class, or leave_config_class_childless.
on_leave_ClassDef ==
    /\ UNCHANGED scan_vars
    /\ UNCHANGED comment_vars
    /\ UNCHANGED validator_vars
    /\ \/ position = "class" /\ node.config = "none"
       \/ position = "after_config"
    /\ last_class' = <<class_stack[Len(class_stack)]>>
    /\ class_stack' = SubSeq(class_stack, 1, Len(class_stack) - 1)
    /\ position' = "module"
    /\ node' = NoNode
    /\ updated_config' = "none"
    /\ updated_fields' = FALSE
    /\ CASE node.name = "Config" ->
              /\ inside_config_class' = FALSE
              /\ emitted' = [UpdatedNode EXCEPT !.comment = leave_config_class(node.commented)]
              /\ UNCHANGED <<is_base_settings, invalid_config_class, inherited_config_class,
                             config_args>>
         [] BASE_MODEL_WITH_INHERITED_CONFIG(node) ->
              IF ~IsKnownMember(node)
              THEN /\ emitted' = OriginalNode
                   /\ UNCHANGED <<inside_config_class, is_base_settings, invalid_config_class,
                                  inherited_config_class, config_args>>
              ELSE /\ inherited_config_class' = FALSE
                   /\ emitted' = UpdatedNode
                   /\ UNCHANGED <<inside_config_class, is_base_settings, invalid_config_class,
                                  config_args>>
         [] BASE_MODEL_WITH_CONFIG(node) ->
              IF ~IsKnownMember(node)
              THEN /\ emitted' = OriginalNode
                   /\ UNCHANGED <<inside_config_class, is_base_settings, invalid_config_class,
                                  inherited_config_class, config_args>>
              ELSE IF invalid_config_class
              THEN /\ invalid_config_class' = FALSE
                   /\ emitted' = UpdatedNode
                   /\ UNCHANGED <<inside_config_class, is_base_settings,
                                  inherited_config_class, config_args>>
              ELSE /\ emitted' =
                        [UpdatedNode EXCEPT
                            !.comment = "none",
                            !.converted = TRUE,
                            !.args = IF class_stack[Len(class_stack)].field_starts_with_model
                                     THEN Append(config_args, "protected_namespaces")
                                     ELSE config_args,
                            !.call = IF is_base_settings THEN "SettingsConfigDict"
                                     ELSE "ConfigDict"]
                   /\ is_base_settings' = FALSE
                   /\ config_args' = << >>
                   /\ UNCHANGED <<inside_config_class, invalid_config_class,
                                  inherited_config_class>>
         [] OTHER ->
              /\ emitted' = UpdatedNode
              /\ UNCHANGED <<inside_config_class, is_base_settings, invalid_config_class,
                             inherited_config_class, config_args>>
    /\ UNCHANGED <<resolver_vars, pipeline_vars, driver_vars, visited>>

\* leave_Module: the traversal of the module ends.
leave_Module ==
    /\ UNCHANGED scan_vars
    /\ UNCHANGED comment_vars
    /\ UNCHANGED validator_vars
    /\ position = "module"
    /\ visited > 0
    /\ position' = "left"
    /\ UNCHANGED <<resolver_vars, pipeline_vars, driver_vars, node, visited,
                   inside_config_class, is_base_settings, invalid_config_class,
                   inherited_config_class, config_args, class_stack, last_class,
                   updated_config, updated_fields, emitted>>

NextConfig ==
    \/ on_visit_ClassDef
    \/ on_visit_Config
    \/ visit_AssignTarget
    \/ on_leave_Config
    \/ on_leave_ClassDef
    \/ leave_Module

SpecConfig == InitConfig /\ [][NextConfig]_vars

----------------------------------------------------------------------------
(* Properties of ReplaceConfigCodemod.                                      *)

\* The class was returned with a comment, a model_config or both.
Changed(e) == e.comment # "none" \/ e.field_comment \/ e.converted

\* C19: a class that is not a known member (no bases, bases outside
\* known_members, or a module-level class named Config) is returned
\* unchanged, without model_config and without marker comment, whatever
\* classes precede it in the module.
C19_NonMemberUnchanged ==
    (position \in {"module", "left"} /\ emitted.node # NoNode /\ ~IsKnownMember(emitted.node))
        => ~Changed(emitted)

\* C20: config_args is empty whenever the traversal enters a model class,
\* whatever preceded it in the module, so the ConfigDict of a class gets the
\* keys of its own nested Config only.
C20_ArgsReset ==
    (position = "class" /\ IsKnownMember(node)) => config_args = << >>

\* Marker pairs before the nested Config of an emitted class: the pair the
\* input already had and the pair the pass added.
MarkerPairs(e) ==
    (IF e.node.commented THEN 1 ELSE 0) + (IF e.comment # "none" THEN 1 ELSE 0)

\* A top-level class has just been left.
ClassLeft == position = "module" /\ emitted.node # NoNode

----------------------------------------------------------------------------
(* ValidatorCodemod (bump_pydantic/codemods/validator.py): one instance     *)
(* traverses the decorated functions of a module.  A FunctionDef is         *)
(* entered (visit_validator_func), its decorators are entered and left one  *)
(* after the other, then the function is left (leave_validator_func).       *)

\* Largest number of decorated functions in a module.
MaxFunctions == 2

\* @validator("x"), @validator("x", pre=True), @validator("x", each_item=True)
ValidatorCalls ==
    {[kind |-> "validator", args |-> a, marked |-> FALSE] : a \in {"fields", "pre", "each_item"}}

\* @root_validator(), @root_validator(pre=True)
RootValidatorCalls ==
    {[kind |-> "root_validator", args |-> a, marked |-> FALSE] : a \in {"none", "pre"}}

\* @classmethod
Classmethod == [kind |-> "classmethod", args |-> "none", marked |-> FALSE]

\* The decorators of the three matchers, @root_validator without a call last.
ValidatingDecorators ==
    ValidatorCalls \cup RootValidatorCalls
    \cup {[kind |-> "bare_root_validator", args |-> "none", marked |-> FALSE]}

\* The marker pair in the leading lines of a decorator.  Comments before the
\* first decorator are leading lines of the function, so only a later
\* decorator has leading lines of its own.
Marked(d) == [d EXCEPT !.marked = TRUE]

\* Decorator lists of a function, with and without a marker pair before the
\* second decorator.
DecoratorLists ==
    {<<d>> : d \in ValidatingDecorators}
    \cup {<<d, Classmethod>> : d \in ValidatingDecorators}
    \cup {<<Classmethod, d>> : d \in ValidatingDecorators}
    \cup {<<Classmethod, Marked(d)>> : d \in ValidatingDecorators}
    \cup {<<r, v>> : r \in RootValidatorCalls, v \in ValidatorCalls}
    \cup {<<r, Marked(v)>> : r \in RootValidatorCalls, v \in ValidatorCalls}

\* Parameter lists: (cls, v); (cls, v, values); (cls, v, values, field);
\* (cls, v, field, config).  No body assigns to values.
ParamLists == {"cls_v", "values", "values_extra", "extra"}

\* The decorated functions of the modules; marked: the marker pair stands in
\* the leading lines of the function, that is before its first decorator.
FunctionDefs ==
    {[decorators |-> ds, params |-> ps, marked |-> mk] :
        ds \in DecoratorLists, ps \in ParamLists, mk \in BOOLEAN}

VALIDATOR_DECORATOR(d) == d.kind = "validator"
ROOT_VALIDATOR_DECORATOR(d) == d.kind = "root_validator"
BARE_ROOT_VALIDATOR_DECORATOR(d) == d.kind = "bare_root_validator"

VALIDATOR_FUNCTION(f) ==
    \E i \in 1..Len(f.decorators) : VALIDATOR_DECORATOR(f.decorators[i])
ROOT_VALIDATOR_FUNCTION(f) ==
    \E i \in 1..Len(f.decorators) : ROOT_VALIDATOR_DECORATOR(f.decorators[i])
BARE_ROOT_VALIDATOR_FUNCTION(f) ==
    \E i \in 1..Len(f.decorators) : BARE_ROOT_VALIDATOR_DECORATOR(f.decorators[i])

\* The arguments of a decorator as written.
WrittenArgs(d) ==
    CASE d.kind = "validator" /\ d.args = "fields" -> <<"'x'">>
      [] d.kind = "validator" /\ d.args = "pre" -> <<"'x'", "pre=True">>
      [] d.kind = "validator" /\ d.args = "each_item" -> <<"'x'", "each_item=True">>
      [] d.kind = "root_validator" /\ d.args = "pre" -> <<"pre=True">>
      [] OTHER -> << >>

\* visit_validator_decorator: what the loop over node.decorator.args appends
\* to self._args (pre=True becomes mode="before", each_item is dropped).
KeptArgs(d) ==
    CASE d.kind = "validator" /\ d.args = "fields" -> <<"'x'">>
      [] d.kind = "validator" /\ d.args = "pre" -> <<"'x'", "mode=before">>
      [] d.kind = "validator" /\ d.args = "each_item" -> <<"'x'">>
      [] d.kind = "root_validator" /\ d.args = "pre" -> <<"mode=before">>
      [] OTHER -> << >>

\* A decorator returned as it was.
Unchanged(d) ==
    [kind |-> d.kind, args |-> WrittenArgs(d), markers |-> IF d.marked THEN 1 ELSE 0]

\* self._decorator_with_leading_comment(updated_node, ...)
_decorator_with_leading_comment(d) ==
    [Unchanged(d) EXCEPT !.markers = @ + 1]

\* next((arg for arg in self._args if arg.keyword.value == "mode"), None) is None
NoMode(args) == \A i \in 1..Len(args) : args[i] \notin {"mode=before", "mode=after"}

InitValidator ==
    /\ ConfigIdle
    /\ ScanIdle
    /\ CommentsIdle
    /\ ValidatorIdle
    /\ Scanned
    /\ PipelineIdle
    /\ DriverIdle

\* on_visit of a FunctionDef: visit_validator_func when it matches.
on_visit_FunctionDef ==
    /\ UNCHANGED scan_vars
    /\ UNCHANGED comment_vars
    /\ at = "module"
    /\ functions_seen < MaxFunctions
    /\ \E f \in FunctionDefs :
          /\ fn' = f
          /\ IF VALIDATOR_FUNCTION(f)
             THEN /\ _has_comment' = (f.marked \/ _has_comment)
                  /\ _should_replace_values_param' =
                        (f.params \in {"values", "values_extra"} \/ _should_replace_values_param)
                  /\ _should_add_comment' =
                        (f.params \in {"values_extra", "extra"} \/ _should_add_comment)
             ELSE UNCHANGED <<_has_comment, _should_replace_values_param, _should_add_comment>>
    /\ at' = "decorators"
    /\ dec' = 0
    /\ functions_seen' = functions_seen + 1
    /\ updated_decorators' = << >>
    /\ updated_function' = NoFunctionEmitted
    /\ UNCHANGED <<resolver_vars, pipeline_vars, driver_vars, config_vars, _args,
                   _should_be_instance_method>>

\* on_visit of the next Decorator: visit_validator_decorator when it matches.
on_visit_Decorator ==
    /\ UNCHANGED scan_vars
    /\ UNCHANGED comment_vars
    /\ at = "decorators"
    /\ dec < Len(fn.decorators)
    /\ LET d == fn.decorators[dec + 1] IN
          IF VALIDATOR_DECORATOR(d) \/ ROOT_VALIDATOR_DECORATOR(d)
          THEN /\ _args' = _args \o KeptArgs(d)
               /\ _should_add_comment' = (d.args = "each_item" \/ _should_add_comment)
          ELSE UNCHANGED <<_args, _should_add_comment>>
    /\ at' = "decorator"
    /\ dec' = dec + 1
    /\ UNCHANGED <<resolver_vars, pipeline_vars, driver_vars, config_vars, fn, functions_seen,
                   _has_comment, _should_replace_values_param, _should_be_instance_method,
                   updated_decorators, updated_function>>

\* on_leave of the Decorator: leave_root_validator_decorato or
\* leave_validator_decorator, with _replace_validators.
on_leave_Decorator ==
    /\ UNCHANGED scan_vars
    /\ UNCHANGED comment_vars
    /\ at = "decorator"
    /\ LET d == fn.decorators[dec] IN
          IF ~(VALIDATOR_DECORATOR(d) \/ ROOT_VALIDATOR_DECORATOR(d)
               \/ BARE_ROOT_VALIDATOR_DECORATOR(d))
          THEN /\ updated_decorators' = Append(updated_decorators, Unchanged(d))
               /\ UNCHANGED <<_args, _should_be_instance_method>>
          ELSE IF _has_comment
          THEN /\ updated_decorators' = Append(updated_decorators, Unchanged(d))
               /\ UNCHANGED <<_args, _should_be_instance_method>>
          ELSE IF _should_add_comment
          THEN /\ updated_decorators' =
                     Append(updated_decorators, _decorator_with_leading_comment(d))
               /\ UNCHANGED <<_args, _should_be_instance_method>>
          ELSE IF VALIDATOR_DECORATOR(d)
          THEN /\ updated_decorators' =
                     Append(updated_decorators,
                            [Unchanged(d) EXCEPT !.kind = "field_validator", !.args = _args])
               /\ UNCHANGED <<_args, _should_be_instance_method>>
          ELSE LET args == IF NoMode(_args) THEN Append(_args, "mode=after") ELSE _args IN
               /\ _args' = args
               /\ _should_be_instance_method' = (NoMode(_args) \/ _should_be_instance_method)
               /\ updated_decorators' =
                     Append(updated_decorators,
                            [Unchanged(d) EXCEPT !.kind = "model_validator", !.args = args])
    /\ at' = "decorators"
    /\ UNCHANGED <<resolver_vars, pipeline_vars, driver_vars, config_vars, fn, dec,
                   functions_seen, _has_comment, _should_add_comment,
                   _should_replace_values_param, updated_function>>

\* on_leave of the FunctionDef: leave_validator_func when it matches.
on_leave_FunctionDef ==
    /\ UNCHANGED scan_vars
    /\ UNCHANGED comment_vars
    /\ at = "decorators"
    /\ dec = Len(fn.decorators)
    /\ IF ~(VALIDATOR_FUNCTION(fn) \/ ROOT_VALIDATOR_FUNCTION(fn)
            \/ BARE_ROOT_VALIDATOR_FUNCTION(fn))
       THEN /\ updated_function' =
                  [NoFunctionEmitted EXCEPT !.fn = fn, !.decorators = updated_decorators]
            /\ UNCHANGED <<_args, _has_comment, _should_add_comment,
                           _should_replace_values_param, _should_be_instance_method>>
       ELSE /\ _args' = << >>
            /\ _has_comment' = FALSE
            /\ IF _should_add_comment
               THEN /\ _should_add_comment' = FALSE
                    /\ updated_function' =
                          [NoFunctionEmitted EXCEPT !.fn = fn, !.decorators = updated_decorators]
                    /\ UNCHANGED <<_should_replace_values_param, _should_be_instance_method>>
               ELSE /\ updated_function' =
                          [fn |-> fn,
                           decorators |-> updated_decorators,
                           params_replaced |-> _should_replace_values_param,
                           classmethod_added |->
                               /\ ~_should_be_instance_method
                               /\ \A i \in 1..Len(updated_decorators) :
                                     updated_decorators[i].kind # "classmethod"]
                    /\ _should_replace_values_param' = FALSE
                    /\ _should_be_instance_method' = FALSE
                    /\ UNCHANGED _should_add_comment
    /\ at' = "module"
    /\ fn' = NoFunction
    /\ dec' = 0
    /\ updated_decorators' = << >>
    /\ UNCHANGED <<resolver_vars, pipeline_vars, driver_vars, config_vars, functions_seen>>

\* ValidatorCodemod.leave_Module: the traversal of the module ends.
ValidatorCodemod_leave_Module ==
    /\ UNCHANGED scan_vars
    /\ UNCHANGED comment_vars
    /\ at = "module"
    /\ functions_seen > 0
    /\ at' = "left"
    /\ UNCHANGED <<resolver_vars, pipeline_vars, driver_vars, config_vars, fn, dec,
                   functions_seen, _args, _has_comment, _should_add_comment,
                   _should_replace_values_param, _should_be_instance_method,
                   updated_decorators, updated_function>>

NextValidator ==
    \/ on_visit_FunctionDef
    \/ on_visit_Decorator
    \/ on_leave_Decorator
    \/ on_leave_FunctionDef
    \/ ValidatorCodemod_leave_Module

SpecValidator == InitValidator /\ [][NextValidator]_vars

----------------------------------------------------------------------------
(* Properties of ValidatorCodemod.                                          *)

\* A decorated function has just been left.
FunctionLeft == at = "module" /\ updated_function.fn # NoFunction

\* The function was returned as it was.
Identical(e) ==
    /\ ~e.params_replaced
    /\ ~e.classmethod_added
    /\ Len(e.decorators) = Len(e.fn.decorators)
    /\ \A i \in 1..Len(e.decorators) : e.decorators[i] = Unchanged(e.fn.decorators[i])

\* The function has exactly one validator decorator, which the pass cannot
\* convert, and the marker pair stands right before that decorator.
MarkedUnconvertible(f) ==
    /\ ~ROOT_VALIDATOR_FUNCTION(f)
    /\ ~BARE_ROOT_VALIDATOR_FUNCTION(f)
    /\ \E i \in 1..Len(f.decorators) :
          /\ VALIDATOR_DECORATOR(f.decorators[i])
          /\ f.decorators[i].args = "each_item" \/ f.params \in {"values_extra", "extra"}
          /\ IF i = 1 THEN f.marked ELSE f.decorators[i].marked /\ ~f.marked

\* C22: a function whose unconvertible @validator decorator is already
\* preceded by its marker pair is returned identical to the input, wherever
\* among the decorators of the function the marked decorator stands.
C22_MarkedUnchanged ==
    (FunctionLeft /\ MarkedUnconvertible(updated_function.fn)) => Identical(updated_function)

\* C30: whenever the traversal has left a decorated validator function,
\* _args is empty and _has_comment, _should_add_comment,
\* _should_replace_values_param and _should_be_instance_method are all
\* False, also when the function was left unconverted with a marker.
C30_StateCleared ==
    (/\ FunctionLeft
     /\ \/ VALIDATOR_FUNCTION(updated_function.fn)
        \/ ROOT_VALIDATOR_FUNCTION(updated_function.fn)
        \/ BARE_ROOT_VALIDATOR_FUNCTION(updated_function.fn))
        => /\ _args = << >>
           /\ ~_has_comment
           /\ ~_should_add_comment
           /\ ~_should_replace_values_param
           /\ ~_should_be_instance_method

\* C29: whenever the traversal has left a top-level class,
\* invalid_config_class, inherited_config_class, inside_config_class and
\* is_base_settings are all False, so the rewrite of a model class does not
\* depend on earlier classes of the module.
C29_FlagsCleared ==
    ClassLeft
        => /\ ~invalid_config_class
           /\ ~inherited_config_class
           /\ ~inside_config_class
           /\ ~is_base_settings

----------------------------------------------------------------------------
(* The passes that defer a marker comment: a hook on an inner node sets a   *)
(* flag, and leave_SimpleStatementLine puts the comment before the line it  *)
(* is leaving and clears the flag.  One instance traverses the statements   *)
(* of the body of a model class; a second instance traverses the output of  *)
(* the first.                                                               *)

\* Largest number of statements in the class body.
MaxStatements == 2

\* The passes with a deferred comment and the node whose hook sets the flag:
\* an untyped assignment whose type is not inferred (leave_untyped_member_assign),
\* an annotated field named model_config (visit_AnnAssign), a call of
\* .copy(...) with include or exclude (leave_copy_call).
DeferringCommands ==
    {"AddMissingAnnotationCommand", "ReplaceConfigCodemod", "ReplaceModelAttributeAccessCommand"}

\* Statements of the class body, by where the node of the hook stands:
\* "plain"  a SimpleStatementLine without such a node;
\* "line"   a SimpleStatementLine holding the node;
\* "header" a compound statement with the node in its header expression and
\*          one plain SimpleStatementLine as its body;
\* "suite"  a compound statement written on one line, the node in its
\*          SimpleStatementSuite.
\* Only an expression can stand in a header, so only the call of
\* ReplaceModelAttributeAccessCommand has "header" statements.
StatementKinds(cmd) ==
    IF cmd = "ReplaceModelAttributeAccessCommand"
    THEN {"plain", "line", "header", "suite"}
    ELSE {"plain", "line", "suite"}

\* The class bodies of the inputs, without marker comments.  For a
\* statement, markers counts the marker comments in its leading lines, inner
\* those in the leading lines of the line in its body.
Bodies(cmd) ==
    UNION {[1..n -> {[kind |-> k, markers |-> 0, inner |-> 0] : k \in StatementKinds(cmd)}] :
           n \in 1..MaxStatements}

\* Whether the hook sets the flag for the node of a statement of this kind.
\* leave_untyped_member_assign returns early unless the ancestors are
\* ClassDef, IndentedBlock, SimpleStatementLine; visit_AnnAssign asks for the
\* class scope only; leave_copy_call asks nothing about the ancestors.
SetsFlag(cmd, kind) ==
    CASE cmd = "AddMissingAnnotationCommand" -> kind = "line"
      [] cmd = "ReplaceConfigCodemod" -> kind \in {"line", "suite"}
      [] cmd = "ReplaceModelAttributeAccessCommand" -> kind \in {"line", "header", "suite"}
      [] OTHER -> FALSE

\* leave_SimpleStatementLine: the comment joins the leading lines of the
\* line and the flag is cleared.
leave_SimpleStatementLine(flag, markers) ==
    [flag |-> FALSE, markers |-> IF flag THEN markers + 1 ELSE markers]

\* The module the next run parses: the comments the pass put into leading
\* lines are written before their statement and read back as its leading
\* lines.
parse_output(tree) ==
    [i \in 1..Len(tree) |->
        [kind |-> tree[i].kind, markers |-> tree[i].markers, inner |-> tree[i].inner]]

InitComments ==
    /\ ConfigIdle
    /\ ScanIdle
    /\ ValidatorIdle
    /\ Scanned
    /\ PipelineIdle
    /\ DriverIdle
    /\ command \in DeferringCommands
    /\ statements \in Bodies(command)
    /\ run_no = 1
    /\ cursor = 0
    /\ stage = "between"
    /\ comment_flag = FALSE
    /\ output = << >>
    /\ first_output = << >>

\* on_visit of the next statement of the body.
on_visit_Statement ==
    /\ UNCHANGED scan_vars
    /\ stage = "between"
    /\ cursor < Len(statements)
    /\ cursor' = cursor + 1
    /\ stage' = statements[cursor + 1].kind
    /\ output' = Append(output, statements[cursor + 1])
    /\ UNCHANGED <<resolver_vars, pipeline_vars, driver_vars, config_vars, validator_vars,
                   command, run_no, statements, comment_flag, first_output>>

\* The hook of the pass runs for the node inside the statement.
on_leave_Node ==
    /\ UNCHANGED scan_vars
    /\ stage \in {"line", "header", "suite"}
    /\ comment_flag' = (SetsFlag(command, stage) \/ comment_flag)
    /\ stage' = CASE stage = "line" -> "plain"
                  [] stage = "header" -> "body"
                  [] stage = "suite" -> "compound"
    /\ UNCHANGED <<resolver_vars, pipeline_vars, driver_vars, config_vars, validator_vars,
                   command, run_no, statements, cursor, output, first_output>>

\* on_leave of a SimpleStatementLine: the statement itself, or the line in
\* the body of a compound statement.
on_leave_SimpleStatementLine ==
    /\ UNCHANGED scan_vars
    /\ stage \in {"plain", "body"}
    /\ LET old == output[cursor]
           left == leave_SimpleStatementLine(
                       comment_flag, IF stage = "plain" THEN old.markers ELSE old.inner)
       IN /\ comment_flag' = left.flag
          /\ output' = [output EXCEPT ![cursor] =
                           IF stage = "plain" THEN [old EXCEPT !.markers = left.markers]
                           ELSE [old EXCEPT !.inner = left.markers]]
    /\ stage' = IF stage = "plain" THEN "between" ELSE "compound"
    /\ UNCHANGED <<resolver_vars, pipeline_vars, driver_vars, config_vars, validator_vars,
                   command, run_no, statements, cursor, first_output>>

\* on_leave of a compound statement: no hook of these passes.
on_leave_Compound ==
    /\ UNCHANGED scan_vars
    /\ stage = "compound"
    /\ stage' = "between"
    /\ UNCHANGED <<resolver_vars, pipeline_vars, driver_vars, config_vars, validator_vars,
                   command, run_no, statements, cursor, comment_flag, output, first_output>>

\* The traversal leaves the module.
on_leave_Module ==
    /\ UNCHANGED scan_vars
    /\ stage = "between"
    /\ cursor = Len(statements)
    /\ stage' = "left"
    /\ UNCHANGED <<resolver_vars, pipeline_vars, driver_vars, config_vars, validator_vars,
                   command, run_no, statements, cursor, comment_flag, output, first_output>>

\* The pass is applied a second time, to its own output: a new instance
\* (its __init__ clears the flag) traverses the module parsed from it.
Rerun ==
    /\ UNCHANGED scan_vars
    /\ stage = "left"
    /\ run_no = 1
    /\ run_no' = 2
    /\ first_output' = output
    /\ statements' = parse_output(output)
    /\ output' = << >>
    /\ cursor' = 0
    /\ stage' = "between"
    /\ comment_flag' = FALSE
    /\ UNCHANGED <<resolver_vars, pipeline_vars, driver_vars, config_vars, validator_vars,
                   command>>

NextComments ==
    \/ on_visit_Statement
    \/ on_leave_Node
    \/ on_leave_SimpleStatementLine
    \/ on_leave_Compound
    \/ on_leave_Module
    \/ Rerun

SpecComments == InitComments /\ [][NextComments]_vars

----------------------------------------------------------------------------
(* Properties of the marker comments.                                       *)

\* C23: applying a marker-attaching pass a second time to its own output
\* adds no further marker comment: before each statement the number of
\* marker comments is the same after one run and after two.
C23_MarkerIdempotent ==
    (stage = "left" /\ run_no = 2)
        => \A i \in 1..Len(output) :
              /\ output[i].markers = first_output[i].markers
              /\ output[i].inner = first_output[i].inner

\* The statements left so far.
Done == IF stage \in {"between", "left"} THEN cursor ELSE cursor - 1

\* C28: a deferred marker comment is flushed at the matching exit: the
\* statement that holds the node whose hook set the flag gets the comment
\* in its leading lines, no other statement gets one, and the flag is clear
\* when the traversal has left the module.
C28_FlushedAtExit ==
    run_no = 1
        => /\ \A i \in 1..Done :
                /\ output[i].markers = IF SetsFlag(command, statements[i].kind) THEN 1 ELSE 0
                /\ output[i].inner = 0
           /\ stage = "left" => ~comment_flag

----------------------------------------------------------------------------
(* scan_for_classes (bump_pydantic/main.py) step by step: the loop over the *)
(* queue of files, the visitor's visit_ClassDef for the class of the file,  *)
(* and the recursive calls of _setIsModel / _setIsNotModel with their       *)
(* call stack.  Each file declares the class named after its module.        *)

\* Recursion depth at which the interpreter would stop a propagation.
MaxDepth == 6

\* The orders in which the files are listed: the scanned classes are
\* interchangeable, so one order and its reverse stand for all.
FileLists ==
    {SetToSeq(Classes),
     [i \in 1..Cardinality(Classes) |-> SetToSeq(Classes)[Cardinality(Classes) + 1 - i]]}

\* Base lists of the scanned classes: none, pydantic.BaseModel, one scanned
\* class (itself included), or two different scanned classes.
ScanBaseLists ==
    {<< >>, << <<"pydantic.BaseModel">> >>}
        \cup {<< <<a>> >> : a \in Classes}
        \cup {<< <<ab[1]>>, <<ab[2]>> >> : ab \in {q \in Classes \X Classes : q[1] # q[2]}}

\* A file: one that cst.parse_module rejects ("parse"), one for which
\* visitor.transform_module raises before observing the class ("visit"), or
\* one declaring its class.
FileContents ==
    {[raises |-> r, bases |-> << >>] : r \in {"parse", "visit"}}
    \cup {[raises |-> "none", bases |-> b] : b \in ScanBaseLists}

\* ClassDefVisitor.next_file picking a file of the list not visited yet.
next_file_Unvisited(visited_set) ==
    IF \E i \in DOMAIN files : files[i] \notin visited_set
    THEN files[CHOOSE i \in DOMAIN files : files[i] \notin visited_set]
    ELSE None

\* ClassDefVisitor.next_file
next_file(visited_set) == None

\* self.pending.pop(fqn) left out.
PopEntry_Kept(reg, fqn) == reg

\* pending_info = self.pending.pop(fqn)
PopEntry(reg, fqn) == [reg EXCEPT !.pending = Pop(@, fqn)]

\* A call of _setIsModel(fqn) or _setIsNotModel(fqn) up to its loop: the
\* registry after the add and the pop, the frame of the loop over
\* pending_info.subclasses (none when fqn is not pending), the name popped.
Call(proc, fqn, reg) ==
    LET added == IF proc = "_setIsModel"
                 THEN [reg EXCEPT !.models = @ \cup {fqn}]
                 ELSE [reg EXCEPT !.non_models = @ \cup {fqn}]
    IN  IF fqn \in DOMAIN added.pending
        THEN [reg |-> PopEntry(added, fqn),
              frames |-> <<[proc |-> proc, fqn |-> fqn,
                            todo |-> added.pending[fqn].subclasses]>>,
              popped_names |-> <<fqn>>]
        ELSE [reg |-> added, frames |-> << >>, popped_names |-> << >>]

\* visit_ClassDef up to its call of a propagation procedure, or all of it
\* when the class becomes pending.
Observe(fqn, bases, reg) ==
    LET locals == ScanBases(bases, NoBasesSeen, reg) IN
    IF bases = << >> THEN Call("_setIsNotModel", fqn, reg)
    ELSE IF locals.has_model_base THEN Call("_setIsModel", fqn, reg)
    ELSE IF locals.unknown_bases = << >> THEN Call("_setIsNotModel", fqn, reg)
    ELSE [reg |-> AddPending(fqn, locals.unknown_bases, reg), frames |-> << >>,
          popped_names |-> << >>]

InitScan ==
    /\ ConfigIdle
    /\ CommentsIdle
    /\ ValidatorIdle
    /\ PipelineIdle
    /\ DriverIdle
    /\ scratch_keys = {}
    /\ models = {}
    /\ non_models = {}
    /\ pending = << >>
    /\ declared = << >>
    /\ last_fqn = None
    /\ files \in FileLists
    /\ contents \in [Classes -> FileContents]
    /\ queue = files
    /\ visited_files = {}
    /\ scanned = << >>
    /\ scan_log = << >>
    /\ pc_scan = "loop"
    /\ call_stack = << >>
    /\ pops = << >>

\* One iteration of "while queue" up to the end of visit_ClassDef's own
\* statements: popleft, visited.add, parse and transform_module (the except
\* branch records the error and continues), ClassDefVisitor(context),
\* visit_ClassDef.
ScanFile ==
    /\ pc_scan = "loop"
    /\ queue # << >>
    /\ LET filename == Head(queue) IN
       /\ queue' = Tail(queue)
       /\ visited_files' = visited_files \cup {filename}
       /\ scanned' = Append(scanned, filename)
       /\ IF contents[filename].raises # "none"
          THEN /\ scan_log' = Append(scan_log, <<"An error happened on", filename>>)
               /\ UNCHANGED <<resolver_vars, pc_scan, call_stack, pops>>
          ELSE LET seeded ==
                       [models |-> setdefault(BASE_MODEL_CONTEXT_KEY, models, SeedModels),
                        non_models |-> setdefault(NO_BASE_MODEL_CONTEXT_KEY, non_models, {}),
                        pending |-> setdefault(PENDING_CLS_CONTEXT_KEY, pending, << >>)]
                   called == Observe(filename, contents[filename].bases, seeded)
               IN  /\ scratch_keys' = scratch_keys \cup ContextKeys
                   /\ models' = called.reg.models
                   /\ non_models' = called.reg.non_models
                   /\ pending' = called.reg.pending
                   /\ declared' = Put(declared, filename, Declaration(contents[filename].bases))
                   /\ last_fqn' = filename
                   /\ call_stack' = called.frames
                   /\ pops' = called.popped_names
                   /\ pc_scan' = "visiting"
                   /\ UNCHANGED scan_log
    /\ UNCHANGED <<pipeline_vars, driver_vars, config_vars, validator_vars, comment_vars,
                   files, contents>>

\* One iteration of "for subclass_fqn in pending_info.subclasses" in the
\* innermost call in progress.
Iterate ==
    /\ pc_scan = "visiting"
    /\ call_stack # << >>
    /\ LET depth == Len(call_stack)
           top == call_stack[depth]
       IN  \E subclass_fqn \in top.todo :
              LET rest == [call_stack EXCEPT ![depth].todo = @ \ {subclass_fqn}]
                  called ==
                      IF top.proc = "_setIsModel"
                      THEN Call("_setIsModel", subclass_fqn, Registry)
                      ELSE IF subclass_fqn \notin DOMAIN pending
                      THEN [reg |-> Registry, frames |-> << >>, popped_names |-> << >>]
                      ELSE LET discarded ==
                                   [Registry EXCEPT
                                       !.pending[subclass_fqn].pending_bases = @ \ {top.fqn}]
                           IN  IF discarded.pending[subclass_fqn].pending_bases = {}
                               THEN Call("_setIsNotModel", subclass_fqn, discarded)
                               ELSE [reg |-> discarded, frames |-> << >>,
                                     popped_names |-> << >>]
              IN  /\ called.frames # << >> => depth < MaxDepth
                  /\ models' = called.reg.models
                  /\ non_models' = called.reg.non_models
                  /\ pending' = called.reg.pending
                  /\ call_stack' = rest \o called.frames
                  /\ pops' = pops \o called.popped_names
    /\ UNCHANGED <<pipeline_vars, driver_vars, config_vars, validator_vars, comment_vars,
                   scratch_keys, declared, last_fqn, files, contents, queue, visited_files,
                   scanned, scan_log, pc_scan>>

\* The loop of the innermost call is over: the call returns.
Return ==
    /\ pc_scan = "visiting"
    /\ call_stack # << >>
    /\ call_stack[Len(call_stack)].todo = {}
    /\ call_stack' = SubSeq(call_stack, 1, Len(call_stack) - 1)
    /\ UNCHANGED <<resolver_vars, pipeline_vars, driver_vars, config_vars, validator_vars,
                   comment_vars, files, contents, queue, visited_files, scanned, scan_log,
                   pc_scan, pops>>

\* transform_module has returned: next_file, and appendleft when it names a file.
FileDone ==
    /\ pc_scan = "visiting"
    /\ call_stack = << >>
    /\ queue' = IF next_file(visited_files) # None
                THEN <<next_file(visited_files)>> \o queue
                ELSE queue
    /\ pc_scan' = "loop"
    /\ UNCHANGED <<resolver_vars, pipeline_vars, driver_vars, config_vars, validator_vars,
                   comment_vars, files, contents, visited_files, scanned, scan_log,
                   call_stack, pops>>

\* The queue is empty: scan_for_classes returns errors.
ScanReturns ==
    /\ pc_scan = "loop"
    /\ queue = << >>
    /\ pc_scan' = "done"
    /\ UNCHANGED <<resolver_vars, pipeline_vars, driver_vars, config_vars, validator_vars,
                   comment_vars, files, contents, queue, visited_files, scanned, scan_log,
                   call_stack, pops>>

NextScan ==
    \/ ScanFile
    \/ Iterate
    \/ Return
    \/ FileDone
    \/ ScanReturns

\* scan_for_classes runs in one thread: a step that can be taken is taken.
SpecScan == InitScan /\ [][NextScan]_vars /\ WF_vars(NextScan)

----------------------------------------------------------------------------
(* Properties of the scan.                                                  *)

RECURSIVE ErrorsOf(_)
\* One error for each file of the list that raises, in list order.
ErrorsOf(list) ==
    IF list = << >> THEN << >>
    ELSE (IF contents[Head(list)].raises = "none" THEN << >>
          ELSE << <<"An error happened on", Head(list)>> >>)
         \o ErrorsOf(Tail(list))

C25_PropagationTerminates ==
    /\ [](\A i, j \in DOMAIN pops : i # j => pops[i] # pops[j])
    /\ []<>(call_stack = << >>)

\* A propagation meets a cycle: the loop of a call is about to examine a
\* subclass that this same propagation has already popped.
C25_Witness ==
    /\ call_stack # << >>
    /\ \E i \in DOMAIN pops : pops[i] \in call_stack[Len(call_stack)].todo

----------------------------------------------------------------------------
(* Properties of the pending entries after visit_ClassDef (Spec).           *)

\* C26: after every visit_ClassDef call, for every class C in pending and
\* every name B in C's pending_bases, B is in neither models nor non_models,
\* and if B is a key of pending then C is in B's subclasses set.
C26_PendingBasesLinked ==
    \A c \in DOMAIN pending :
        \A b \in pending[c].pending_bases :
            /\ b \notin models
            /\ b \notin non_models
            /\ b \in DOMAIN pending => c \in pending[b].subclasses

\* The visit that has just returned made the observed class a non-member,
\* _setIsNotModel discarded it from the pending_bases of a class declared
\* with it as a base, and that class stays pending on a base that is a key
\* of pending.
C26_Witness ==
    /\ last_fqn \in non_models
    /\ \E c \in PendingClasses :
           /\ last_fqn \in declared[c].names
           /\ \E b \in pending[c].pending_bases : b \in DOMAIN pending

\* C27: after every visit_ClassDef call, every key of pending has a
\* non-empty pending_bases set, the entries created for base names that have
\* been referenced but not yet observed included.
C27_PendingHasBases ==
    \A c \in DOMAIN pending : pending[c].pending_bases # {}


============================================================================
